---- MODULE Spec2Model ----
(***************************************************************************)
(* A model of the pgfplots crate: the key lists of Plot2D, Axis and        *)
(* Picture, the replace-by-tag add_key operation, and the rendering        *)
(* (fmt::Display) of every layer into text.                                *)
(*                                                                         *)
(* Text is a sequence of fragments (strings) in the order the code writes  *)
(* them; Flatten joins the fragments into the string a caller receives.    *)
(* An f64 is represented by the integer 2*v (halves), so that integral and *)
(* non-integral values both occur; Option<f64> is a sequence of length at  *)
(* most one.                                                               *)
(***************************************************************************)
EXTENDS Integers, Sequences, FiniteSets, TLC

VARIABLES
    plot,          \* the Plot2D under construction: [keys, coordinates]
    axis,          \* the Axis under construction: [keys, plots]
    picture,       \* the Picture under construction: [keys, axes]
    plotCalls,     \* history: the keys passed to Plot2D::add_key, in call order
    axisCalls,     \* history: the keys passed to Axis::add_key, in call order
    pictureCalls,  \* history: the keys passed to Picture::add_key, in call order
    axisVia,       \* history: for each entry of axisCalls, the method the caller used
    last,          \* the operation called last: [op, arg]
    ret,           \* the text the last operation returned ("" for unit)
    ops,           \* number of mutating operations performed
    pc,            \* position of the caller inside to_pdf / show_pdf
    entry,         \* the public method called: "to_pdf" or "show_pdf"
    working_dir,   \* to_pdf's working_dir
    jobname,       \* to_pdf's jobname; in random_jobname, the candidate
    files,         \* the paths that exist in the file system
    tex_file,      \* the NamedTempFile of to_pdf: [created, complete, text]
    compiler,      \* the pdflatex child process: [started, input, status]
    pdf_result,    \* what to_pdf returned, <<>> before it returns
    show_result,   \* what show_pdf returned, <<>> before it returns
    opened,        \* history: the paths passed to opener::open
    overwritten    \* history: the paths that existed when the compiler wrote them

pdfVars == <<pc, entry, working_dir, jobname, files, tex_file, compiler,
             pdf_result, show_result, opened, overwritten>>

vars == <<plot, axis, picture, plotCalls, axisCalls, pictureCalls, axisVia,
          last, ret, ops, pc, entry, working_dir, jobname, files, tex_file,
          compiler, pdf_result, show_result, opened, overwritten>>

\* No call of to_pdf or show_pdf is in progress or was made.
PdfIdle ==
    /\ pc = "start"
    /\ entry = ""
    /\ working_dir = ""
    /\ jobname = ""
    /\ tex_file = [created |-> FALSE, complete |-> FALSE, text |-> ""]
    /\ compiler = [started |-> FALSE, input |-> "", status |-> <<>>]
    /\ pdf_result = <<>>
    /\ show_result = <<>>
    /\ opened = <<>>
    /\ overwritten = {}

\* Longest sequence of mutating calls explored.
MaxOps == 3

-----------------------------------------------------------------------------
(* Generic helpers *)

RECURSIVE Flatten(_)
Flatten(s) == IF s = <<>> THEN "" ELSE Head(s) \o Flatten(Tail(s))

\* Vec::remove(index): drops the element at index, shifting the rest left.
remove(s, index) == SubSeq(s, 1, index - 1) \o SubSeq(s, index + 1, Len(s))

\* std::mem::discriminant: the variant tag of a key, without its payload.
discriminant(k) == k.tag

\* Mutant of the position predicate: compares whole keys, payload included.
position_by_value(keys, key) ==
    LET hits == {i \in 1..Len(keys) : keys[i] = key}
    IN  IF hits = {} THEN 0 ELSE CHOOSE i \in hits : \A j \in hits : i <= j

\* Iterator::position with the discriminant predicate: the first index whose
\* tag equals the tag of key, 0 for None.
position(keys, key) ==
    LET hits == {i \in 1..Len(keys) : discriminant(keys[i]) = discriminant(key)}
    IN  IF hits = {} THEN 0 ELSE CHOOSE i \in hits : \A j \in hits : i <= j

\* Mutant of the number rendering: one fractional digit is always written.
F64_fmt_fraction(v) ==
    LET a == IF v < 0 THEN 0 - v ELSE v
        sign == IF v < 0 THEN "-" ELSE ""
    IN  IF a % 2 = 0 THEN sign \o ToString(a \div 2) \o ".0"
        ELSE sign \o ToString(a \div 2) \o ".5"

\* Display of f64 (and f32): integral values print without a fractional part.
F64_fmt(v) ==
    LET a == IF v < 0 THEN 0 - v ELSE v
        sign == IF v < 0 THEN "-" ELSE ""
    IN  IF a % 2 = 0 THEN sign \o ToString(a \div 2)
        ELSE sign \o ToString(a \div 2) \o ".5"

is_some(o) == o # <<>>
unwrap_or(o, d) == IF o = <<>> THEN d ELSE o[1]

-----------------------------------------------------------------------------
(* Coordinate2D *)

Coordinate2D_from2(x, y) == [x |-> x, y |-> y, error_x |-> <<>>, error_y |-> <<>>]
Coordinate2D_from4(x, y, ex, ey) == [x |-> x, y |-> y, error_x |-> ex, error_y |-> ey]

\* Mutant of the coordinate rendering: the errors are written only when both
\* are set.
Coordinate2D_fmt_both(self) ==
    <<"(", F64_fmt(self.x), ",", F64_fmt(self.y), ")">>
    \o (IF is_some(self.error_x) /\ is_some(self.error_y)
        THEN <<"\t+- (", F64_fmt(unwrap_or(self.error_x, 0)), ",",
               F64_fmt(unwrap_or(self.error_y, 0)), ")">>
        ELSE <<>>)


Coordinate2D_fmt(self) ==
    <<"(", F64_fmt(self.x), ",", F64_fmt(self.y), ")">>
    \o (IF is_some(self.error_x) \/ is_some(self.error_y)
        THEN <<"\t+- (", F64_fmt(unwrap_or(self.error_x, 0)), ",",
               F64_fmt(unwrap_or(self.error_y, 0)), ")">>
        ELSE <<>>)

-----------------------------------------------------------------------------
(* Enumerations of plot.rs and axis.rs *)

Scale_fmt(v) == CASE v = "Log" -> "log" [] v = "Normal" -> "normal"

ErrorCharacter_fmt(v) ==
    CASE v = "Absolute" -> "explicit" [] v = "Relative" -> "explicit relative"

ErrorDirection_fmt(v) ==
    CASE v = "None" -> "none" [] v = "Plus" -> "plus"
      [] v = "Minus" -> "minus" [] v = "Both" -> "both"

\* Mutant of the plot type rendering: a bar field that is zero is left out.
Type2D_fmt_omit_zero(v) ==
    LET bar(name) ==
            name \o (IF v.bar_width = 0 THEN ""
                     ELSE ", bar width=" \o F64_fmt(v.bar_width))
                 \o (IF v.bar_shift = 0 THEN ""
                     ELSE ", bar shift=" \o F64_fmt(v.bar_shift))
    IN  CASE v.variant = "SharpPlot" -> "sharp plot"
          [] v.variant = "Smooth" -> "smooth, tension=" \o F64_fmt(v.tension)
          [] v.variant = "ConstLeft" -> "const plot mark left"
          [] v.variant = "ConstRight" -> "const plot mark right"
          [] v.variant = "ConstMid" -> "const plot mark mid"
          [] v.variant = "JumpLeft" -> "jump mark left"
          [] v.variant = "JumpRight" -> "jump mark right"
          [] v.variant = "JumpMid" -> "jump mark mid"
          [] v.variant = "XBar" -> bar("xbar")
          [] v.variant = "YBar" -> bar("ybar")
          [] v.variant = "XComb" -> "xcomb"
          [] v.variant = "YComb" -> "ycomb"
          [] v.variant = "OnlyMarks" -> "only marks"


Type2D_fmt(v) ==
    CASE v.variant = "SharpPlot" -> "sharp plot"
      [] v.variant = "Smooth" -> "smooth, tension=" \o F64_fmt(v.tension)
      [] v.variant = "ConstLeft" -> "const plot mark left"
      [] v.variant = "ConstRight" -> "const plot mark right"
      [] v.variant = "ConstMid" -> "const plot mark mid"
      [] v.variant = "JumpLeft" -> "jump mark left"
      [] v.variant = "JumpRight" -> "jump mark right"
      [] v.variant = "JumpMid" -> "jump mark mid"
      [] v.variant = "XBar" -> "xbar, bar width=" \o F64_fmt(v.bar_width)
                                \o ", bar shift=" \o F64_fmt(v.bar_shift)
      [] v.variant = "YBar" -> "ybar, bar width=" \o F64_fmt(v.bar_width)
                                \o ", bar shift=" \o F64_fmt(v.bar_shift)
      [] v.variant = "XComb" -> "xcomb"
      [] v.variant = "YComb" -> "ycomb"
      [] v.variant = "OnlyMarks" -> "only marks"

-----------------------------------------------------------------------------
(* Color: [value], the text PGFPlots reads *)

\* [T]::join(sep) on a vector of strings.
RECURSIVE join(_, _)
join(s, sep) ==
    IF s = <<>> THEN ""
    ELSE IF Len(s) = 1 THEN s[1]
    ELSE s[1] \o sep \o join(Tail(s), sep)

\* strum::Display with serialize_all = "lowercase".
PredefinedColor_fmt(v) ==
    CASE v = "Red" -> "red" [] v = "Green" -> "green" [] v = "Blue" -> "blue"
      [] v = "Cyan" -> "cyan" [] v = "Magenta" -> "magenta"
      [] v = "Yellow" -> "yellow" [] v = "Black" -> "black"
      [] v = "Gray" -> "gray" [] v = "White" -> "white"
      [] v = "DarkGray" -> "darkgray" [] v = "LightGray" -> "lightgray"
      [] v = "Brown" -> "brown" [] v = "Lime" -> "lime" [] v = "Olive" -> "olive"
      [] v = "Orange" -> "orange" [] v = "Pink" -> "pink"
      [] v = "Purple" -> "purple" [] v = "Teal" -> "teal"
      [] v = "Violet" -> "violet"

Color_fmt(self) == self.value

\* From<PredefinedColor> for Color.
Color_from(value) == [value |-> PredefinedColor_fmt(value)]

\* C: Into<Color>: a Color [value] converts to itself, a PredefinedColor
\* [predefined] through Color_from.
Color_into(c) == IF "value" \in DOMAIN c THEN c ELSE Color_from(c.predefined)

\* The vector of from_mix after the loop: the prefix, then four elements per
\* weighted color.
RECURSIVE from_mix_result(_)
from_mix_result(weighted_colors) ==
    IF weighted_colors = <<>> THEN <<"rgb,255:">>
    ELSE LET n == Len(weighted_colors)
             color == Color_into(weighted_colors[n][1])
             weight == weighted_colors[n][2]
         IN  from_mix_result(SubSeq(weighted_colors, 1, n - 1))
             \o <<Color_fmt(color), ",", ToString(weight), ";">>

\* Vec::pop: drops the last element, whatever it is.
pop(s) == SubSeq(s, 1, Len(s) - 1)

\* Mutant of from_mix: keeps the trailing separator.
Color_from_mix_no_pop(weighted_colors) ==
    [value |-> join(from_mix_result(weighted_colors), "")]

Color_from_mix(weighted_colors) ==
    [value |-> join(pop(from_mix_result(weighted_colors)), "")]

-----------------------------------------------------------------------------
(* Marker: [shape, options] *)

\* Mutant of the shape rendering: the variant's name as declared, without
\* the lowercase serialization and the overrides.
MarkShape_fmt_name(v) == v.shape

\* strum::Display of MarkShape, serialize_all = "lowercase" with the
\* per-variant overrides. Text is #[strum(disabled)]: it has no token here.
MarkShape_fmt(v) ==
    CASE v.shape = "O" -> "o" [] v.shape = "OFilled" -> "*"
      [] v.shape = "X" -> "x" [] v.shape = "Plus" -> "+"
      [] v.shape = "Minus" -> "-" [] v.shape = "Pipe" -> "|"
      [] v.shape = "Star" -> "star" [] v.shape = "Asterisk" -> "asterisk"
      [] v.shape = "OPlus" -> "oplus" [] v.shape = "OPlusFilled" -> "oplus*"
      [] v.shape = "OTimes" -> "otimes" [] v.shape = "OTimesFilled" -> "otimes*"
      [] v.shape = "Square" -> "square" [] v.shape = "SquareFilled" -> "square*"
      [] v.shape = "Triangle" -> "triangle"
      [] v.shape = "TriangleFilled" -> "triangle*"
      [] v.shape = "Diamond" -> "diamond" [] v.shape = "DiamondFilled" -> "diamond*"
      [] v.shape = "Pentagon" -> "pentagon"
      [] v.shape = "PentagonFilled" -> "pentagon*"

MarkOption_fmt(o) ==
    CASE o.tag = "Scale" -> "scale=" \o F64_fmt(o.value)
      [] o.tag = "Fill" -> "fill={" \o Color_fmt(o.value) \o "}"
      [] o.tag = "Draw" -> "draw={" \o Color_fmt(o.value) \o "}"
      [] o.tag = "XScale" -> "xscale=" \o F64_fmt(o.value)
      [] o.tag = "YScale" -> "yscale=" \o F64_fmt(o.value)

Marker_new(shape, options) == [shape |-> shape, options |-> options]

\* Mutant of the marker rendering: an option tag is written once only.
Marker_fmt_dedup(self) ==
    LET mark == IF self.shape.shape = "Text"
                THEN "mark=text, text mark=" \o self.shape.text
                ELSE "mark=" \o MarkShape_fmt(self.shape)
        firsts == {i \in 1..Len(self.options) :
                     \A j \in 1..(i - 1) : self.options[j].tag # self.options[i].tag}
        kept == [i \in 1..Len(self.options) |-> i \in firsts]
        RECURSIVE pick(_)
        pick(i) == IF i > Len(self.options) THEN <<>>
                   ELSE (IF kept[i] THEN <<MarkOption_fmt(self.options[i])>> ELSE <<>>)
                        \o pick(i + 1)
    IN  mark \o ", mark options={" \o join(pick(1), ", ") \o "}"

Marker_fmt(self) ==
    LET mark == IF self.shape.shape = "Text"
                THEN "mark=text, text mark=" \o self.shape.text
                ELSE "mark=" \o MarkShape_fmt(self.shape)
    IN  mark \o ", mark options={"
        \o join([i \in 1..Len(self.options) |-> MarkOption_fmt(self.options[i])], ", ")
        \o "}"

-----------------------------------------------------------------------------
(* Keys: [tag, value] *)

PlotKey_fmt(k) ==
    CASE k.tag = "Custom" -> k.value
      [] k.tag = "Type2D" -> Type2D_fmt(k.value)
      [] k.tag = "XError" -> "error bars/x " \o ErrorCharacter_fmt(k.value)
      [] k.tag = "XErrorDirection" -> "error bars/x dir=" \o ErrorDirection_fmt(k.value)
      [] k.tag = "YError" -> "error bars/y " \o ErrorCharacter_fmt(k.value)
      [] k.tag = "YErrorDirection" -> "error bars/y dir=" \o ErrorDirection_fmt(k.value)
      [] k.tag = "Marker" -> Marker_fmt(k.value)

AxisKey_fmt(k) ==
    CASE k.tag = "Custom" -> k.value
      [] k.tag = "XMode" -> "xmode=" \o Scale_fmt(k.value)
      [] k.tag = "YMode" -> "ymode=" \o Scale_fmt(k.value)
      [] k.tag = "Title" -> "title={" \o k.value \o "}"
      [] k.tag = "XLabel" -> "xlabel={" \o k.value \o "}"
      [] k.tag = "YLabel" -> "ylabel={" \o k.value \o "}"

PictureKey_fmt(k) == CASE k.tag = "Custom" -> k.value

-----------------------------------------------------------------------------
(* Plot2D *)

Plot2D_new == [keys |-> <<>>, coordinates |-> <<>>]

\* Mutant of Plot2D::add_key: the list is cut at the key that is replaced
\* (Vec::truncate for Vec::remove).
Plot2D_add_key_truncate(self, key) ==
    LET index == position(self.keys, key)
        kept == IF discriminant(key) = "Custom" THEN self.keys
                ELSE IF index # 0 THEN SubSeq(self.keys, 1, index - 1)
                ELSE self.keys
    IN  [self EXCEPT !.keys = Append(kept, key)]

\* Mutant of Plot2D::add_key: a key whose tag is present is replaced where it
\* stands.
Plot2D_add_key_in_place(self, key) ==
    LET index == position(self.keys, key)
    IN  IF discriminant(key) # "Custom" /\ index # 0
        THEN [self EXCEPT !.keys[index] = key]
        ELSE [self EXCEPT !.keys = Append(self.keys, key)]

\* Mutant of Plot2D::add_key: pushes the key without removing the old entry.
Plot2D_add_key_push_only(self, key) == [self EXCEPT !.keys = Append(self.keys, key)]

Plot2D_add_key(self, key) ==
    LET index == position(self.keys, key)
        kept == IF discriminant(key) = "Custom" THEN self.keys
                ELSE IF index # 0 THEN remove(self.keys, index)
                ELSE self.keys
    IN  [self EXCEPT !.keys = Append(kept, key)]

\* plot.coordinates.push(c): the field is public.
Plot2D_push(self, c) == [self EXCEPT !.coordinates = Append(@, c)]

RECURSIVE PlotKeyLines(_)
PlotKeyLines(keys) ==
    IF keys = <<>> THEN <<>>
    ELSE <<"\t\t", PlotKey_fmt(Head(keys)), ",", "\n">> \o PlotKeyLines(Tail(keys))

RECURSIVE CoordinateLines(_)
CoordinateLines(cs) ==
    IF cs = <<>> THEN <<>>
    ELSE <<"\t\t">> \o Coordinate2D_fmt(Head(cs)) \o <<"\n">> \o CoordinateLines(Tail(cs))

\* Mutant of the Display of Plot2D: the key lines are joined by commas, so
\* the last one carries none.
RECURSIVE PlotKeyLinesJoined(_)
PlotKeyLinesJoined(keys) ==
    IF keys = <<>> THEN <<>>
    ELSE IF Len(keys) = 1 THEN <<"\t\t", PlotKey_fmt(Head(keys)), "\n">>
    ELSE <<"\t\t", PlotKey_fmt(Head(keys)), ",", "\n">> \o PlotKeyLinesJoined(Tail(keys))

\* Mutant of the plot rendering: a coordinate's errors are written only when
\* the plot holds the error key and the direction key of that axis.
Plot2D_fmt_gated(self) ==
    LET has(tag) == \E i \in 1..Len(self.keys) : self.keys[i].tag = tag
        gate(c) == [c EXCEPT
                      !.error_x = IF has("XError") /\ has("XErrorDirection")
                                  THEN @ ELSE <<>>,
                      !.error_y = IF has("YError") /\ has("YErrorDirection")
                                  THEN @ ELSE <<>>]
    IN  <<"\t\\addplot", "[">>
        \o (IF self.keys # <<>>
            THEN <<"\n">> \o PlotKeyLines(self.keys) \o <<"\t">>
            ELSE <<>>)
        \o <<"]", " coordinates {", "\n">>
        \o CoordinateLines([i \in 1..Len(self.coordinates) |-> gate(self.coordinates[i])])
        \o <<"\t};">>


Plot2D_fmt_joined(self) ==
    <<"\t\\addplot", "[">>
    \o (IF self.keys # <<>>
        THEN <<"\n">> \o PlotKeyLinesJoined(self.keys) \o <<"\t">>
        ELSE <<>>)
    \o <<"]", " coordinates {", "\n">>
    \o CoordinateLines(self.coordinates)
    \o <<"\t};">>

Plot2D_fmt(self) ==
    <<"\t\\addplot", "[">>
    \o (IF self.keys # <<>>
        THEN <<"\n">> \o PlotKeyLines(self.keys) \o <<"\t">>
        ELSE <<>>)
    \o <<"]", " coordinates {", "\n">>
    \o CoordinateLines(self.coordinates)
    \o <<"\t};">>

-----------------------------------------------------------------------------
(* Axis *)

Axis_new == [keys |-> <<>>, plots |-> <<>>]

\* Mutant of Axis::add_key: a key whose tag is present is ignored.
Axis_add_key_ignore(self, key) ==
    LET index == position(self.keys, key)
    IN  IF discriminant(key) # "Custom" /\ index # 0 THEN self
        ELSE [self EXCEPT !.keys = Append(self.keys, key)]

\* Mutant of Axis::add_key: the key is always appended.
Axis_add_key_append(self, key) == [self EXCEPT !.keys = Append(self.keys, key)]

\* Mutant of Axis::add_key: overwrites the old entry where it stands.
Axis_add_key_in_place(self, key) ==
    LET index == position(self.keys, key)
    IN  IF discriminant(key) # "Custom" /\ index # 0
        THEN [self EXCEPT !.keys[index] = key]
        ELSE [self EXCEPT !.keys = Append(self.keys, key)]

Axis_add_key(self, key) ==
    LET index == position(self.keys, key)
        kept == IF discriminant(key) = "Custom" THEN self.keys
                ELSE IF index # 0 THEN remove(self.keys, index)
                ELSE self.keys
    IN  [self EXCEPT !.keys = Append(kept, key)]

\* Mutant of Axis::set_title: pushes the Title key without going through add_key.
Axis_set_title_push(self, title) ==
    [self EXCEPT !.keys = Append(self.keys, [tag |-> "Title", value |-> title])]

Axis_set_title(self, title) == Axis_add_key(self, [tag |-> "Title", value |-> title])
Axis_set_x_label(self, label) == Axis_add_key(self, [tag |-> "XLabel", value |-> label])
Axis_set_y_label(self, label) == Axis_add_key(self, [tag |-> "YLabel", value |-> label])

\* axis.plots.push(p): the field is public; the plot is moved or cloned in.
Axis_push(self, p) == [self EXCEPT !.plots = Append(@, p)]

RECURSIVE AxisKeyLines(_)
AxisKeyLines(keys) ==
    IF keys = <<>> THEN <<>>
    ELSE <<"\t", AxisKey_fmt(Head(keys)), ",", "\n">> \o AxisKeyLines(Tail(keys))

RECURSIVE PlotBlocks(_)
PlotBlocks(plots) ==
    IF plots = <<>> THEN <<>>
    ELSE Plot2D_fmt(Head(plots)) \o <<"\n">> \o PlotBlocks(Tail(plots))

\* Mutant of the Display of Axis: the option block is written even when
\* there are no keys.
Axis_fmt_always_brackets(self) ==
    <<"\\begin{axis}">>
    \o <<"[", "\n">> \o AxisKeyLines(self.keys) \o <<"]">>
    \o <<"\n">>
    \o PlotBlocks(self.plots)
    \o <<"\\end{axis}">>

\* Mutant of the Display of Axis: the plots are written with write!, without
\* the newline that ends each block.
RECURSIVE PlotBlocksUnterminated(_)
PlotBlocksUnterminated(plots) ==
    IF plots = <<>> THEN <<>>
    ELSE Plot2D_fmt(Head(plots)) \o PlotBlocksUnterminated(Tail(plots))

Axis_fmt_unterminated(self) ==
    <<"\\begin{axis}">>
    \o (IF self.keys # <<>>
        THEN <<"[", "\n">> \o AxisKeyLines(self.keys) \o <<"]">>
        ELSE <<>>)
    \o <<"\n">>
    \o PlotBlocksUnterminated(self.plots)
    \o <<"\\end{axis}">>

Axis_fmt(self) ==
    <<"\\begin{axis}">>
    \o (IF self.keys # <<>>
        THEN <<"[", "\n">> \o AxisKeyLines(self.keys) \o <<"]">>
        ELSE <<>>)
    \o <<"\n">>
    \o PlotBlocks(self.plots)
    \o <<"\\end{axis}">>

-----------------------------------------------------------------------------
(* Picture *)

Picture_new == [keys |-> <<>>, axes |-> <<>>]

\* Axis::from(plot), called by From<Plot2D> for Picture. The sources hold no
\* impl From<Plot2D> for Axis; this follows the specification: the plot
\* wrapped in a default-constructed axis.
Axis_from_Plot2D(plot_) == [Axis_new EXCEPT !.plots = <<plot_>>]

\* Mutant of From<Axis>: the keys of the axis become the keys of the picture.
Picture_from_Axis_hoist(axis_) ==
    [keys |-> axis_.keys, axes |-> <<[axis_ EXCEPT !.keys = <<>>]>>]

\* impl From<Axis> for Picture
Picture_from_Axis(axis_) == [keys |-> <<>>, axes |-> <<axis_>>]

\* impl From<Plot2D> for Picture
Picture_from_Plot2D(plot_) == Picture_from_Axis(Axis_from_Plot2D(plot_))

\* Mutant of Picture::add_key: treats Custom like a mutually exclusive key.
Picture_add_key_dedup(self, key) ==
    [self EXCEPT !.keys = Append(SelectSeq(self.keys, LAMBDA k : k # key), key)]

\* PictureKey has the single variant Custom: the match arm does nothing.
Picture_add_key(self, key) == [self EXCEPT !.keys = Append(self.keys, key)]

\* picture.axes.push(a): the field is public.
Picture_push(self, a) == [self EXCEPT !.axes = Append(@, a)]

RECURSIVE PictureKeyLines(_)
PictureKeyLines(keys) ==
    IF keys = <<>> THEN <<>>
    ELSE <<"\t", PictureKey_fmt(Head(keys)), ",", "\n">> \o PictureKeyLines(Tail(keys))

RECURSIVE AxisBlocks(_)
AxisBlocks(axes) ==
    IF axes = <<>> THEN <<>>
    ELSE Axis_fmt(Head(axes)) \o <<"\n">> \o AxisBlocks(Tail(axes))

\* Mutant of the Display of Picture: the newline after the header is written
\* inside the branch of the option block.
Picture_fmt_newline_in_block(self) ==
    <<"\\begin{tikzpicture}">>
    \o (IF self.keys # <<>>
        THEN <<"[", "\n">> \o PictureKeyLines(self.keys) \o <<"]", "\n">>
        ELSE <<>>)
    \o AxisBlocks(self.axes)
    \o <<"\\end{tikzpicture}">>

Picture_fmt(self) ==
    <<"\\begin{tikzpicture}">>
    \o (IF self.keys # <<>>
        THEN <<"[", "\n">> \o PictureKeyLines(self.keys) \o <<"]">>
        ELSE <<>>)
    \o <<"\n">>
    \o AxisBlocks(self.axes)
    \o <<"\\end{tikzpicture}">>

\* Mutant of standalone_string: the document ends with a newline.
Picture_standalone_string_newline(self) ==
    <<"\\documentclass{standalone}\n", "\\usepackage{pgfplots}\n",
      "\\begin{document}\n">>
    \o Picture_fmt(self) \o <<"\n\\end{document}", "\n">>


Picture_standalone_string(self) ==
    <<"\\documentclass{standalone}\n", "\\usepackage{pgfplots}\n", "\\begin{document}\n">>
    \o Picture_fmt(self)
    \o <<"\n\\end{document}">>

-----------------------------------------------------------------------------
(* ToString::to_string of each layer: what the caller gets back, and the    *)
(* object as the call leaves it (fmt takes &self).                          *)

\* Mutant of Picture::to_string: rendering consumes the key list.
Picture_to_string_draining(self) ==
    [self |-> [self EXCEPT !.keys = <<>>], text |-> Flatten(Picture_fmt(self))]

Coordinate2D_to_string(self) ==
    [self |-> self, text |-> Flatten(Coordinate2D_fmt(self))]
Plot2D_to_string(self) == [self |-> self, text |-> Flatten(Plot2D_fmt(self))]
Axis_to_string(self) == [self |-> self, text |-> Flatten(Axis_fmt(self))]
Picture_to_string(self) == [self |-> self, text |-> Flatten(Picture_fmt(self))]
Picture_standalone(self) ==
    [self |-> self, text |-> Flatten(Picture_standalone_string(self))]

-----------------------------------------------------------------------------
(* Inputs of the calls *)

PlotKeyInputs ==
    { [tag |-> "Custom", value |-> "random"],
      [tag |-> "XError", value |-> "Absolute"],
      [tag |-> "XError", value |-> "Relative"],
      [tag |-> "YError", value |-> "Absolute"],
      [tag |-> "YErrorDirection", value |-> "Both"],
      [tag |-> "Type2D", value |-> [variant |-> "SharpPlot"]] }

AxisKeyInputs ==
    { [tag |-> "Custom", value |-> "random"],
      [tag |-> "XMode", value |-> "Log"],
      [tag |-> "XMode", value |-> "Normal"],
      [tag |-> "YMode", value |-> "Log"],
      [tag |-> "Title", value |-> "C"] }

PictureKeyInputs ==
    { [tag |-> "Custom", value |-> "baseline"],
      [tag |-> "Custom", value |-> "scale=2"] }

LabelInputs == {"A", "B"}

\* (1.0, -1.0) and (0.5, 2.0, None, Some(3.0))
CoordinateInputs ==
    { Coordinate2D_from2(2, -2), Coordinate2D_from4(1, 4, <<>>, <<6>>) }

SetterTags == {"Title", "XLabel", "YLabel"}

-----------------------------------------------------------------------------
(* The state machine: a caller building one plot, one axis and one picture *)

Call(op, arg) == [op |-> op, arg |-> arg]

Init ==
    /\ plot = Plot2D_new
    /\ axis = Axis_new
    /\ picture = Picture_new
    /\ plotCalls = <<>>
    /\ axisCalls = <<>>
    /\ pictureCalls = <<>>
    /\ axisVia = <<>>
    /\ last = Call("new", 0)
    /\ ret = ""
    /\ ops = 0
    /\ PdfIdle
    /\ files = {}

\* Mutant of the plot's add_key: the copies of the plot stored in the axis
\* are the plot itself, so they change with it.
Plot2DAddKey_shared(key) ==
    /\ ops < MaxOps
    /\ plot' = Plot2D_add_key(plot, key)
    /\ axis' = [axis EXCEPT !.plots =
                  [i \in 1..Len(axis.plots) |->
                     IF axis.plots[i] = plot THEN Plot2D_add_key(plot, key)
                     ELSE axis.plots[i]]]
    /\ plotCalls' = Append(plotCalls, key)
    /\ last' = Call("Plot2D::add_key", 0)
    /\ ret' = ""
    /\ ops' = ops + 1
    /\ UNCHANGED <<picture, axisCalls, pictureCalls, axisVia>>
    /\ UNCHANGED pdfVars


Plot2DAddKey(key) ==
    /\ ops < MaxOps
    /\ plot' = Plot2D_add_key(plot, key)
    /\ plotCalls' = Append(plotCalls, key)
    /\ last' = Call("Plot2D::add_key", 0)
    /\ ret' = ""
    /\ ops' = ops + 1
    /\ UNCHANGED <<axis, picture, axisCalls, pictureCalls, axisVia>>
    /\ UNCHANGED pdfVars

Plot2DPush(c) ==
    /\ ops < MaxOps
    /\ plot' = Plot2D_push(plot, c)
    /\ last' = Call("Plot2D::coordinates.push", 0)
    /\ ret' = ""
    /\ ops' = ops + 1
    /\ UNCHANGED <<axis, picture, plotCalls, axisCalls, pictureCalls, axisVia>>
    /\ UNCHANGED pdfVars

AxisAddKey(key) ==
    /\ ops < MaxOps
    /\ axis' = Axis_add_key(axis, key)
    /\ axisCalls' = Append(axisCalls, key)
    /\ axisVia' = Append(axisVia, "add_key")
    /\ last' = Call("Axis::add_key", 0)
    /\ ret' = ""
    /\ ops' = ops + 1
    /\ UNCHANGED <<plot, picture, plotCalls, pictureCalls>>
    /\ UNCHANGED pdfVars

AxisSetTitle(title) ==
    /\ ops < MaxOps
    /\ axis' = Axis_set_title(axis, title)
    /\ axisCalls' = Append(axisCalls, [tag |-> "Title", value |-> title])
    /\ axisVia' = Append(axisVia, "set_title")
    /\ last' = Call("Axis::set_title", 0)
    /\ ret' = ""
    /\ ops' = ops + 1
    /\ UNCHANGED <<plot, picture, plotCalls, pictureCalls>>
    /\ UNCHANGED pdfVars

AxisSetXLabel(label) ==
    /\ ops < MaxOps
    /\ axis' = Axis_set_x_label(axis, label)
    /\ axisCalls' = Append(axisCalls, [tag |-> "XLabel", value |-> label])
    /\ axisVia' = Append(axisVia, "set_x_label")
    /\ last' = Call("Axis::set_x_label", 0)
    /\ ret' = ""
    /\ ops' = ops + 1
    /\ UNCHANGED <<plot, picture, plotCalls, pictureCalls>>
    /\ UNCHANGED pdfVars

AxisSetYLabel(label) ==
    /\ ops < MaxOps
    /\ axis' = Axis_set_y_label(axis, label)
    /\ axisCalls' = Append(axisCalls, [tag |-> "YLabel", value |-> label])
    /\ axisVia' = Append(axisVia, "set_y_label")
    /\ last' = Call("Axis::set_y_label", 0)
    /\ ret' = ""
    /\ ops' = ops + 1
    /\ UNCHANGED <<plot, picture, plotCalls, pictureCalls>>
    /\ UNCHANGED pdfVars

\* axis.plots.push(plot.clone())
AxisPush ==
    /\ ops < MaxOps
    /\ axis' = Axis_push(axis, plot)
    /\ last' = Call("Axis::plots.push", 0)
    /\ ret' = ""
    /\ ops' = ops + 1
    /\ UNCHANGED <<plot, picture, plotCalls, axisCalls, pictureCalls, axisVia>>
    /\ UNCHANGED pdfVars

PictureAddKey(key) ==
    /\ ops < MaxOps
    /\ picture' = Picture_add_key(picture, key)
    /\ pictureCalls' = Append(pictureCalls, key)
    /\ last' = Call("Picture::add_key", 0)
    /\ ret' = ""
    /\ ops' = ops + 1
    /\ UNCHANGED <<plot, axis, plotCalls, axisCalls, axisVia>>
    /\ UNCHANGED pdfVars

\* picture.axes.push(axis.clone())
PicturePush ==
    /\ ops < MaxOps
    /\ picture' = Picture_push(picture, axis)
    /\ last' = Call("Picture::axes.push", 0)
    /\ ret' = ""
    /\ ops' = ops + 1
    /\ UNCHANGED <<plot, axis, plotCalls, axisCalls, pictureCalls, axisVia>>
    /\ UNCHANGED pdfVars

\* plot.coordinates[i].to_string()
Coordinate2DToString(i) ==
    /\ plot' = [plot EXCEPT !.coordinates[i] = Coordinate2D_to_string(@).self]
    /\ ret' = Coordinate2D_to_string(plot.coordinates[i]).text
    /\ last' = Call("Coordinate2D::to_string", i)
    /\ UNCHANGED <<axis, picture, plotCalls, axisCalls, pictureCalls, axisVia, ops>>
    /\ UNCHANGED pdfVars

Plot2DToString ==
    /\ plot' = Plot2D_to_string(plot).self
    /\ ret' = Plot2D_to_string(plot).text
    /\ last' = Call("Plot2D::to_string", 0)
    /\ UNCHANGED <<axis, picture, plotCalls, axisCalls, pictureCalls, axisVia, ops>>
    /\ UNCHANGED pdfVars

AxisToString ==
    /\ axis' = Axis_to_string(axis).self
    /\ ret' = Axis_to_string(axis).text
    /\ last' = Call("Axis::to_string", 0)
    /\ UNCHANGED <<plot, picture, plotCalls, axisCalls, pictureCalls, axisVia, ops>>
    /\ UNCHANGED pdfVars

PictureToString ==
    /\ picture' = Picture_to_string(picture).self
    /\ ret' = Picture_to_string(picture).text
    /\ last' = Call("Picture::to_string", 0)
    /\ UNCHANGED <<plot, axis, plotCalls, axisCalls, pictureCalls, axisVia, ops>>
    /\ UNCHANGED pdfVars

PictureStandaloneString ==
    /\ picture' = Picture_standalone(picture).self
    /\ ret' = Picture_standalone(picture).text
    /\ last' = Call("Picture::standalone_string", 0)
    /\ UNCHANGED <<plot, axis, plotCalls, axisCalls, pictureCalls, axisVia, ops>>
    /\ UNCHANGED pdfVars

Next ==
    \/ \E key \in PlotKeyInputs : Plot2DAddKey(key)
    \/ \E c \in CoordinateInputs : Plot2DPush(c)
    \/ \E key \in AxisKeyInputs : AxisAddKey(key)
    \/ \E title \in LabelInputs : AxisSetTitle(title)
    \/ \E label \in LabelInputs : AxisSetXLabel(label)
    \/ \E label \in LabelInputs : AxisSetYLabel(label)
    \/ AxisPush
    \/ \E key \in PictureKeyInputs : PictureAddKey(key)
    \/ PicturePush
    \/ \E i \in 1..Len(plot.coordinates) : Coordinate2DToString(i)
    \/ Plot2DToString
    \/ AxisToString
    \/ PictureToString
    \/ PictureStandaloneString

Spec == Init /\ [][Next]_vars

-----------------------------------------------------------------------------
(* The second state machine: a caller applying the formatting functions and
   the conversions to values drawn from the domains below *)

MaxHalves == 3
MaxMix == 3
MaxOptions == 2

\* f64 values -MaxHalves/2 .. MaxHalves/2 in steps of one half.
Halves == (0 - MaxHalves)..MaxHalves

\* None, Some of a small value, and Some(3.0), Some(4.0) of the unit tests.
OptionInputs == {<<>>} \cup {<<v>> : v \in 0..MaxHalves} \cup {<<6>>, <<8>>}

CoordinateDomain ==
    { Coordinate2D_from4(x, y, ex, ey) :
        x \in Halves, y \in Halves, ex \in OptionInputs, ey \in OptionInputs }

ScaleVariants == {"Normal", "Log"}
ErrorCharacterVariants == {"Absolute", "Relative"}
ErrorDirectionVariants == {"None", "Plus", "Minus", "Both"}

Type2DPlainVariants ==
    { "SharpPlot", "ConstLeft", "ConstRight", "ConstMid", "JumpLeft",
      "JumpRight", "JumpMid", "XComb", "YComb", "OnlyMarks" }

Type2DPlain == {[variant |-> n] : n \in Type2DPlainVariants}
Type2DSmooth == {[variant |-> "Smooth", tension |-> t] : t \in Halves}
Type2DBars ==
    { [variant |-> b, bar_width |-> w, bar_shift |-> s] :
        b \in {"XBar", "YBar"}, w \in Halves, s \in Halves }

MarkShapeVariants ==
    { "O", "OFilled", "X", "Plus", "Minus", "Pipe", "Star", "Asterisk",
      "OPlus", "OPlusFilled", "OTimes", "OTimesFilled", "Square",
      "SquareFilled", "Triangle", "TriangleFilled", "Diamond",
      "DiamondFilled", "Pentagon", "PentagonFilled" }

MarkShapeFixed == {[shape |-> n] : n \in MarkShapeVariants}
MarkShapeText == {[shape |-> "Text", text |-> t] : t \in {"p", "Pq"}}

ColorInputs ==
    { Color_from("Blue"), Color_from("DarkGray"),
      Color_from_mix(<<<<[predefined |-> "Red"], 200>>,
                       <<[predefined |-> "Green"], 55>>>>) }

MarkOptionNumbers ==
    {[tag |-> t, value |-> v] : t \in {"Scale", "XScale", "YScale"}, v \in Halves}
MarkOptionColors ==
    {[tag |-> t, value |-> c] : t \in {"Fill", "Draw"}, c \in ColorInputs}

\* The options markers are built from.
MarkerOptionInputs ==
    { [tag |-> "Scale", value |-> 3], [tag |-> "Scale", value |-> 4],
      [tag |-> "XScale", value |-> 1], [tag |-> "YScale", value |-> -2] }
    \cup { [tag |-> "Fill", value |-> Color_from("Blue")],
           [tag |-> "Draw", value |-> Color_from("Green")] }

OptionLists == UNION {[1..n -> MarkerOptionInputs] : n \in 0..MaxOptions}

MarkerInputs ==
    {Marker_new(sh, os) : sh \in MarkShapeFixed \cup MarkShapeText, os \in OptionLists}

\* (PredefinedColor, u8) pairs and (Color, u8) pairs.
PredefinedEntries ==
    { <<[predefined |-> c], w>> : c \in {"Red", "DarkGray", "Blue"}, w \in {0, 55, 200} }
ColorEntries == {<<c, w>> : c \in ColorInputs, w \in {1, 255}}
PredefinedMixes == UNION {[1..n -> PredefinedEntries] : n \in 0..MaxMix}
ColorMixes == UNION {[1..n -> ColorEntries] : n \in 0..MaxMix}

EnumKeyInputs ==
    {[tag |-> t, value |-> v] : t \in {"XError", "YError"}, v \in ErrorCharacterVariants}
    \cup {[tag |-> t, value |-> v] :
            t \in {"XErrorDirection", "YErrorDirection"}, v \in ErrorDirectionVariants}
Type2DKeyInputs ==
    {[tag |-> "Type2D", value |-> v] : v \in Type2DPlain \cup Type2DSmooth \cup Type2DBars}
MarkerKeyInputs == {[tag |-> "Marker", value |-> m] : m \in MarkerInputs}
ModeKeyInputs ==
    {[tag |-> t, value |-> v] : t \in {"XMode", "YMode"}, v \in ScaleVariants}

\* Plots and axes as the first state machine builds them.
PlotSamples ==
    {Plot2D_new}
    \cup {Plot2D_add_key(Plot2D_new, k) : k \in PlotKeyInputs}
    \cup {Plot2D_push(Plot2D_add_key(Plot2D_new, k), c) :
             k \in PlotKeyInputs, c \in CoordinateInputs}

AxisSamples ==
    {Axis_new}
    \cup {Axis_add_key(Axis_new, k) : k \in AxisKeyInputs}
    \cup {Axis_push(Axis_add_key(Axis_new, k), p) : k \in AxisKeyInputs, p \in PlotSamples}

\* The caller holds one call, op(arg), drawn from the domains.
Drawn(op, S) == \E x \in S : last = Call(op, x)

InitValues ==
    /\ plot = Plot2D_new
    /\ axis = Axis_new
    /\ picture = Picture_new
    /\ plotCalls = <<>>
    /\ axisCalls = <<>>
    /\ pictureCalls = <<>>
    /\ axisVia = <<>>
    /\ ret = ""
    /\ ops = 0
    /\ PdfIdle
    /\ files = {}
    /\ \/ Drawn("Coordinate2D::fmt", CoordinateDomain)
       \/ Drawn("Scale::fmt", ScaleVariants)
       \/ Drawn("ErrorCharacter::fmt", ErrorCharacterVariants)
       \/ Drawn("ErrorDirection::fmt", ErrorDirectionVariants)
       \/ Drawn("Type2D::fmt", Type2DPlain)
       \/ Drawn("Type2D::fmt", Type2DSmooth)
       \/ Drawn("Type2D::fmt", Type2DBars)
       \/ Drawn("MarkShape::fmt", MarkShapeFixed)
       \/ Drawn("MarkOption::fmt", MarkOptionNumbers)
       \/ Drawn("MarkOption::fmt", MarkOptionColors)
       \/ Drawn("Marker::fmt", MarkerInputs)
       \/ Drawn("PlotKey::fmt", EnumKeyInputs)
       \/ Drawn("PlotKey::fmt", Type2DKeyInputs)
       \/ Drawn("PlotKey::fmt", MarkerKeyInputs)
       \/ Drawn("AxisKey::fmt", ModeKeyInputs)
       \/ Drawn("Color::from_mix", PredefinedMixes)
       \/ Drawn("Color::from_mix", ColorMixes)
       \/ Drawn("Picture::from(Axis)", AxisSamples)
       \/ Drawn("Picture::from(Plot2D)", PlotSamples)

\* The held call is made and returns value. The functions are pure, so a
\* behaviour makes its call once; the plot, the axis and the picture of the
\* first state machine are not involved.
Returns(op, value) ==
    /\ last.op = op
    /\ ops = 0
    /\ ops' = ops + 1
    /\ ret' = value
    /\ UNCHANGED <<plot, axis, picture, plotCalls, axisCalls, pictureCalls,
                   axisVia, last>>
    /\ UNCHANGED pdfVars

Coordinate2DDisplay == Returns("Coordinate2D::fmt", Flatten(Coordinate2D_fmt(last.arg)))
ScaleDisplay == Returns("Scale::fmt", Scale_fmt(last.arg))
ErrorCharacterDisplay == Returns("ErrorCharacter::fmt", ErrorCharacter_fmt(last.arg))
ErrorDirectionDisplay == Returns("ErrorDirection::fmt", ErrorDirection_fmt(last.arg))
Type2DDisplay == Returns("Type2D::fmt", Type2D_fmt(last.arg))
MarkShapeDisplay == Returns("MarkShape::fmt", MarkShape_fmt(last.arg))
MarkOptionDisplay == Returns("MarkOption::fmt", MarkOption_fmt(last.arg))
MarkerDisplay == Returns("Marker::fmt", Marker_fmt(last.arg))
PlotKeyDisplay == Returns("PlotKey::fmt", PlotKey_fmt(last.arg))
AxisKeyDisplay == Returns("AxisKey::fmt", AxisKey_fmt(last.arg))
\* Color::from_mix(weighted_colors).to_string()
ColorFromMix == Returns("Color::from_mix", Color_fmt(Color_from_mix(last.arg)))
PictureFromAxis == Returns("Picture::from(Axis)", Picture_from_Axis(last.arg))
PictureFromPlot2D == Returns("Picture::from(Plot2D)", Picture_from_Plot2D(last.arg))

NextValues ==
    \/ Coordinate2DDisplay
    \/ ScaleDisplay
    \/ ErrorCharacterDisplay
    \/ ErrorDirectionDisplay
    \/ Type2DDisplay
    \/ MarkShapeDisplay
    \/ MarkOptionDisplay
    \/ MarkerDisplay
    \/ PlotKeyDisplay
    \/ AxisKeyDisplay
    \/ ColorFromMix
    \/ PictureFromAxis
    \/ PictureFromPlot2D

SpecValues == InitValues /\ [][NextValues]_vars

-----------------------------------------------------------------------------
(* The third state machine: one call of Picture::to_pdf or Picture::show_pdf
   with the PdfLatex engine, step by step, next to other processes that
   create files in the temporary directory *)

\* std::env::temp_dir() and another directory a caller may pass to to_pdf.
TempDir == "/tmp"
WorkingDirs == {"/tmp", "/work"}

\* Strings of 8 alphanumeric characters Alphanumeric.append_string can give.
Suffixes == {"aB3dE6gH", "00000000"}

\* Job names a caller passes to to_pdf itself.
JobnameInputs == {"jobname", "pgfplots_00000000"}

Extensions == {".pdf", ".log", ".aux"}

\* Path::join for a relative file name.
Path_join(dir, name) == dir \o "/" \o name

\* The files pdflatex -jobname=<job> writes in dir.
Outputs(dir, job) == {Path_join(dir, job \o e) : e \in Extensions}

\* The files of the temporary directory that matter to random_jobname.
TempFiles == UNION {Outputs(TempDir, "pgfplots_" \o s) : s \in Suffixes}

\* ExitStatus as the wait status: 0 is success, everything else is not.
StatusInputs == {0, 1, 137}
success(status) == status = 0

\* What pdflatex leaves in dir: all three files on success, at most the log
\* and the aux file otherwise.
CompilerWrites(dir, job, status) ==
    IF success(status) THEN {Outputs(dir, job)}
    ELSE { {}, {Path_join(dir, job \o ".log")},
           {Path_join(dir, job \o ".log"), Path_join(dir, job \o ".aux")} }

\* The pictures compiled.
PictureSamples ==
    { Picture_new,
      Picture_add_key(Picture_new, [tag |-> "Custom", value |-> "baseline"]),
      Picture_push(Picture_new, Axis_set_title(Axis_new, "A")) }

\* The results: CompileError, Result<PathBuf, CompileError>, ShowPdfError,
\* Result<(), ShowPdfError>; a result not yet returned is <<>>.
IoError == [kind |-> "IoError"]
BadExitCode(status) == [kind |-> "BadExitCode", status |-> status]
Ok(value) == [kind |-> "Ok", value |-> value]
BadCompilation(error) == [kind |-> "BadCompilation", source |-> error]
OpenerError == [kind |-> "OpenerError"]

InitPdf ==
    /\ plot = Plot2D_new
    /\ axis = Axis_new
    /\ picture \in PictureSamples
    /\ plotCalls = <<>>
    /\ axisCalls = <<>>
    /\ pictureCalls = <<>>
    /\ axisVia = <<>>
    /\ last = Call("new", 0)
    /\ ret = ""
    /\ ops = 0
    /\ PdfIdle
    /\ files = {}

core == <<plot, axis, picture, plotCalls, axisCalls, pictureCalls, axisVia,
          last, ret, ops>>

\* picture.to_pdf(working_dir, jobname, Engine::PdfLatex)
CallToPdf(dir, name) ==
    /\ pc = "start"
    /\ entry' = "to_pdf"
    /\ working_dir' = dir
    /\ jobname' = name
    /\ pc' = "create"
    /\ UNCHANGED <<core, files, tex_file, compiler, pdf_result, show_result,
                   opened, overwritten>>

\* picture.show_pdf(Engine::PdfLatex)
CallShowPdf ==
    /\ pc = "start"
    /\ entry' = "show_pdf"
    /\ pc' = "random_jobname"
    /\ UNCHANGED <<core, working_dir, jobname, files, tex_file, compiler,
                   pdf_result, show_result, opened, overwritten>>

\* One turn of the loop of random_jobname: the name is drawn.
RandomJobname(suffix) ==
    /\ pc = "random_jobname"
    /\ jobname' = "pgfplots_" \o suffix
    /\ pc' = "exists"
    /\ UNCHANGED <<core, entry, working_dir, files, tex_file, compiler,
                   pdf_result, show_result, opened, overwritten>>

\* Mutant of the test of random_jobname: only the pdf file is looked for.
Exists_pdf_only ==
    /\ pc = "exists"
    /\ IF Path_join(TempDir, jobname \o ".pdf") \notin files
       THEN pc' = "create" /\ working_dir' = TempDir
       ELSE pc' = "random_jobname" /\ UNCHANGED working_dir
    /\ UNCHANGED <<core, entry, jobname, files, tex_file, compiler, pdf_result,
                   show_result, opened, overwritten>>

\* The test of the three paths: the name is returned and passed to to_pdf
\* with temp_dir(), or the loop goes round.
Exists ==
    /\ pc = "exists"
    /\ IF Outputs(TempDir, jobname) \cap files = {}
       THEN pc' = "create" /\ working_dir' = TempDir
       ELSE pc' = "random_jobname" /\ UNCHANGED working_dir
    /\ UNCHANGED <<core, entry, jobname, files, tex_file, compiler, pdf_result,
                   show_result, opened, overwritten>>

\* NamedTempFile::new()?
TempFileNew(ok) ==
    /\ pc = "create"
    /\ IF ok
       THEN /\ tex_file' = [tex_file EXCEPT !.created = TRUE]
            /\ pc' = "write"
            /\ UNCHANGED pdf_result
       ELSE /\ pdf_result' = <<IoError>>
            /\ pc' = "returned"
            /\ UNCHANGED tex_file
    /\ UNCHANGED <<core, entry, working_dir, jobname, files, compiler,
                   show_result, opened, overwritten>>

\* The text write_all leaves in the file when it fails after n fragments.
Partial(text, n) == Flatten(SubSeq(text, 1, n))

\* Mutant of the write: its error is dropped and the compiler is run.
WriteAll_unchecked(ok) ==
    /\ pc = "write"
    /\ IF ok
       THEN tex_file' = [tex_file EXCEPT
                           !.text = Flatten(Picture_standalone_string(picture)),
                           !.complete = TRUE]
       ELSE \E n \in {0, 1} :
                tex_file' = [tex_file EXCEPT
                               !.text = Partial(Picture_standalone_string(picture), n)]
    /\ pc' = "status"
    /\ UNCHANGED pdf_result
    /\ UNCHANGED <<core, entry, working_dir, jobname, files, compiler,
                   show_result, opened, overwritten>>

\* tex_file.write_all(self.standalone_string().as_bytes())?
WriteAll(ok) ==
    /\ pc = "write"
    /\ IF ok
       THEN /\ tex_file' = [tex_file EXCEPT
                              !.text = Flatten(Picture_standalone_string(picture)),
                              !.complete = TRUE]
            /\ pc' = "status"
            /\ UNCHANGED pdf_result
       ELSE /\ \E n \in {0, 1} :
                 tex_file' = [tex_file EXCEPT
                                !.text = Partial(Picture_standalone_string(picture), n)]
            /\ pdf_result' = <<IoError>>
            /\ pc' = "returned"
    /\ UNCHANGED <<core, entry, working_dir, jobname, files, compiler,
                   show_result, opened, overwritten>>

\* Command::new("pdflatex")...status()?: the child is started on the
\* temporary file, or starting it fails.
CommandStatus(ok) ==
    /\ pc = "status"
    /\ IF ok
       THEN /\ compiler' = [compiler EXCEPT !.started = TRUE, !.input = tex_file.text]
            /\ pc' = "wait"
            /\ UNCHANGED pdf_result
       ELSE /\ pdf_result' = <<IoError>>
            /\ pc' = "returned"
            /\ UNCHANGED compiler
    /\ UNCHANGED <<core, entry, working_dir, jobname, files, tex_file,
                   show_result, opened, overwritten>>

\* Mutant of the end of to_pdf: the exit status is not looked at.
ChildExits_unchecked(status, written) ==
    /\ pc = "wait"
    /\ written \in CompilerWrites(working_dir, jobname, status)
    /\ compiler' = [compiler EXCEPT !.status = <<status>>]
    /\ overwritten' = overwritten \cup (written \cap files)
    /\ files' = files \cup written
    /\ pdf_result' = <<Ok(Path_join(working_dir, jobname \o ".pdf"))>>
    /\ pc' = "returned"
    /\ UNCHANGED <<core, entry, working_dir, jobname, tex_file, show_result, opened>>

\* The child writes its files and exits; to_pdf returns BadExitCode unless
\* status.success(), and the path of the pdf otherwise.
ChildExits(status, written) ==
    /\ pc = "wait"
    /\ written \in CompilerWrites(working_dir, jobname, status)
    /\ compiler' = [compiler EXCEPT !.status = <<status>>]
    /\ overwritten' = overwritten \cup (written \cap files)
    /\ files' = files \cup written
    /\ pdf_result' = IF ~success(status) THEN <<BadExitCode(status)>>
                     ELSE <<Ok(Path_join(working_dir, jobname \o ".pdf"))>>
    /\ pc' = "returned"
    /\ UNCHANGED <<core, entry, working_dir, jobname, tex_file, show_result, opened>>

\* to_pdf was called by the caller: the call is over.
ToPdfReturns ==
    /\ pc = "returned"
    /\ entry = "to_pdf"
    /\ pc' = "done"
    /\ UNCHANGED <<core, entry, working_dir, jobname, files, tex_file, compiler,
                   pdf_result, show_result, opened, overwritten>>

\* let pdf_path = self.to_pdf(...)?: an error is returned as BadCompilation.
Try ==
    /\ pc = "returned"
    /\ entry = "show_pdf"
    /\ IF pdf_result[1].kind = "Ok"
       THEN pc' = "open" /\ UNCHANGED show_result
       ELSE pc' = "done" /\ show_result' = <<BadCompilation(pdf_result[1])>>
    /\ UNCHANGED <<core, entry, working_dir, jobname, files, tex_file, compiler,
                   pdf_result, opened, overwritten>>

\* Mutant of the call of the viewer: its error is dropped.
Open_unchecked(ok) ==
    /\ pc = "open"
    /\ opened' = Append(opened, [path |-> pdf_result[1].value, ok |-> ok])
    /\ show_result' = <<Ok(<<>>)>>
    /\ pc' = "done"
    /\ UNCHANGED <<core, entry, working_dir, jobname, files, tex_file, compiler,
                   pdf_result, overwritten>>

\* opener::open(pdf_path)?; Ok(()): the viewer is called with the path
\* to_pdf returned, and it starts or fails.
Open(ok) ==
    /\ pc = "open"
    /\ opened' = Append(opened, [path |-> pdf_result[1].value, ok |-> ok])
    /\ show_result' = IF ok THEN <<Ok(<<>>)>> ELSE <<OpenerError>>
    /\ pc' = "done"
    /\ UNCHANGED <<core, entry, working_dir, jobname, files, tex_file, compiler,
                   pdf_result, overwritten>>

\* Another process, a concurrent show_pdf included, creates a file in the
\* temporary directory.
OtherProcessCreates(f) ==
    /\ f \notin files
    /\ files' = files \cup {f}
    /\ UNCHANGED <<core, pc, entry, working_dir, jobname, tex_file, compiler,
                   pdf_result, show_result, opened, overwritten>>

NextPdf ==
    \/ \E dir \in WorkingDirs, name \in JobnameInputs : CallToPdf(dir, name)
    \/ CallShowPdf
    \/ \E suffix \in Suffixes : RandomJobname(suffix)
    \/ Exists
    \/ \E ok \in BOOLEAN : TempFileNew(ok)
    \/ \E ok \in BOOLEAN : WriteAll(ok)
    \/ \E ok \in BOOLEAN : CommandStatus(ok)
    \/ \E status \in StatusInputs :
          \E written \in CompilerWrites(working_dir, jobname, status) :
              ChildExits(status, written)
    \/ ToPdfReturns
    \/ Try
    \/ \E ok \in BOOLEAN : Open(ok)
    \/ \E f \in TempFiles : OtherProcessCreates(f)

SpecPdf == InitPdf /\ [][NextPdf]_vars

\* The random choice is fair: in a loop that goes round for ever every
\* suffix is drawn again and again, and the test is made.
FairSpecPdf ==
    /\ SpecPdf
    /\ WF_vars(Exists)
    /\ \A suffix \in Suffixes : SF_vars(RandomJobname(suffix))

-----------------------------------------------------------------------------
(* Vocabulary of the properties *)

IsCustom(k) == k.tag = "Custom"

Last(s) == s[Len(s)]

\* The indices of keys whose tag is tag.
WithTag(keys, tag) == {i \in 1..Len(keys) : keys[i].tag = tag}

\* The key of the most recent call with the given tag.
LatestCall(calls, tag) ==
    calls[CHOOSE i \in WithTag(calls, tag) : \A j \in WithTag(calls, tag) : j <= i]

NonCustomTags(calls) == {calls[i].tag : i \in 1..Len(calls)} \ {"Custom"}

NonCustomOnce(keys) ==
    \A i, j \in 1..Len(keys) :
        (i # j /\ keys[i].tag = keys[j].tag) => keys[i].tag = "Custom"

AxisKeyOps == {"Axis::add_key", "Axis::set_title", "Axis::set_x_label", "Axis::set_y_label"}

-----------------------------------------------------------------------------
\* C1: after any sequence of add_key calls on a new Plot2D or a new Axis, the
\* key list holds at most one entry per non-Custom variant tag.
C1_AtMostOnePerTag == NonCustomOnce(plot.keys) /\ NonCustomOnce(axis.keys)

\* A tag was added twice, with Custom calls in the mix.
C1_Witness ==
    /\ Len(plotCalls) = 3
    /\ \E i, j \in 1..3 : i < j /\ plotCalls[i].tag = plotCalls[j].tag
                          /\ ~IsCustom(plotCalls[i])
    /\ \E i \in 1..3 : IsCustom(plotCalls[i])
    /\ Len(plot.keys) = 2

\* C2: last write wins. Right after add_key(k) the last entry of the key list
\* is k, and every non-Custom tag that was added has exactly one entry, which
\* carries the payload of the most recent call for that tag.
C2_LastWriteWins ==
    /\ last.op = "Plot2D::add_key" => Last(plot.keys) = Last(plotCalls)
    /\ last.op \in AxisKeyOps => Last(axis.keys) = Last(axisCalls)
    /\ \A tag \in NonCustomTags(plotCalls) :
          /\ Cardinality(WithTag(plot.keys, tag)) = 1
          /\ \A i \in WithTag(plot.keys, tag) : plot.keys[i] = LatestCall(plotCalls, tag)
    /\ \A tag \in NonCustomTags(axisCalls) :
          /\ Cardinality(WithTag(axis.keys, tag)) = 1
          /\ \A i \in WithTag(axis.keys, tag) : axis.keys[i] = LatestCall(axisCalls, tag)

\* A tag was added twice with different payloads, another key in between.
C2_Witness ==
    /\ last.op = "Axis::add_key"
    /\ Len(axisCalls) = 3
    /\ axisCalls[1].tag = axisCalls[3].tag
    /\ axisCalls[1].value # axisCalls[3].value
    /\ axisCalls[2].tag \notin {axisCalls[1].tag, "Custom"}
    /\ Len(axis.keys) = 2

\* C3: Custom keys are never deduplicated. At every layer add_key(Custom(t))
\* appends exactly one entry and removes none, also when Custom(t) is already
\* present; the Custom entries of a key list are the Custom calls, in call
\* order, and each is rendered as an option line of its own.
CustomTexts(calls) == {calls[i].value : i \in WithTag(calls, "Custom")}

\* How often the fragment t occurs in a text.
Occurrences(text, t) == Cardinality({i \in 1..Len(text) : text[i] = t})

RECURSIVE SumOccurrences(_, _)
SumOccurrences(texts, t) ==
    IF texts = <<>> THEN 0
    ELSE Occurrences(Head(texts), t) + SumOccurrences(Tail(texts), t)

\* Occurrences of t a layer writes itself, its children's text left out.
PlotOwn(p, t) == Occurrences(Plot2D_fmt(p), t)
AxisOwn(a, t) ==
    Occurrences(Axis_fmt(a), t)
    - SumOccurrences([i \in 1..Len(a.plots) |-> Plot2D_fmt(a.plots[i])], t)
PictureOwn(p, t) ==
    Occurrences(Picture_fmt(p), t)
    - SumOccurrences([i \in 1..Len(p.axes) |-> Axis_fmt(p.axes[i])], t)

CallsOf(calls, key) == Cardinality({i \in 1..Len(calls) : calls[i] = key})

C3_Kept ==
    /\ SelectSeq(plot.keys, IsCustom) = SelectSeq(plotCalls, IsCustom)
    /\ SelectSeq(axis.keys, IsCustom) = SelectSeq(axisCalls, IsCustom)
    /\ picture.keys = pictureCalls
    /\ \A t \in CustomTexts(plotCalls) :
          PlotOwn(plot, t) = CallsOf(plotCalls, [tag |-> "Custom", value |-> t])
    /\ \A t \in CustomTexts(axisCalls) :
          AxisOwn(axis, t) = CallsOf(axisCalls, [tag |-> "Custom", value |-> t])
    /\ \A t \in CustomTexts(pictureCalls) :
          PictureOwn(picture, t) = CallsOf(pictureCalls, [tag |-> "Custom", value |-> t])

C3_Step ==
    /\ (Len(plotCalls') = Len(plotCalls) + 1 /\ IsCustom(Last(plotCalls')))
          => plot'.keys = Append(plot.keys, Last(plotCalls'))
    /\ (Len(axisCalls') = Len(axisCalls) + 1 /\ IsCustom(Last(axisCalls')))
          => axis'.keys = Append(axis.keys, Last(axisCalls'))
    /\ (Len(pictureCalls') = Len(pictureCalls) + 1 /\ IsCustom(Last(pictureCalls')))
          => picture'.keys = Append(picture.keys, Last(pictureCalls'))

C3_CustomNeverDeduplicated == []C3_Kept /\ [][C3_Step]_vars

\* The same Custom text was added a second time, and the picture rendered.
C3_Witness ==
    /\ Len(pictureCalls) >= 2
    /\ pictureCalls[1] = pictureCalls[2]
    /\ Len(picture.keys) = Len(pictureCalls)
    /\ last.op = "Picture::to_string"

\* C4: replacement is decided by the variant tag alone. Adding a non-Custom
\* key removes the entry of that tag, whatever the two payloads are, and
\* keeps every entry of another tag, in order.
OtherTags(keys, tag) == SelectSeq(keys, LAMBDA k : k.tag # tag)

C4_PlotStep ==
    (Len(plotCalls') = Len(plotCalls) + 1 /\ ~IsCustom(Last(plotCalls'))) =>
        LET k == Last(plotCalls')
        IN  plot'.keys = Append(OtherTags(plot.keys, k.tag), k)

C4_AxisStep ==
    (Len(axisCalls') = Len(axisCalls) + 1 /\ ~IsCustom(Last(axisCalls'))) =>
        LET k == Last(axisCalls')
        IN  axis'.keys = Append(OtherTags(axis.keys, k.tag), k)

C4_ReplaceByTagOnly == [][C4_PlotStep /\ C4_AxisStep]_vars

\* XError(Absolute), YError(Absolute), XError(Relative): the second XError
\* replaced the first, and YError, with the payload of the first, stayed.
C4_Witness ==
    /\ plotCalls = << [tag |-> "XError", value |-> "Absolute"],
                      [tag |-> "YError", value |-> "Absolute"],
                      [tag |-> "XError", value |-> "Relative"] >>
    /\ plot.keys = << [tag |-> "YError", value |-> "Absolute"],
                      [tag |-> "XError", value |-> "Relative"] >>

\* C5 as stated: after any sequence of set_title, set_x_label and set_y_label
\* calls interleaved with add_key calls, the Axis holds at most one Title,
\* one XLabel and one YLabel entry, each with the text passed to the latest
\* call of its setter.
SetterCalls(tag) == {i \in WithTag(axisCalls, tag) : axisVia[i] # "add_key"}

LatestSetterText(tag) ==
    axisCalls[CHOOSE i \in SetterCalls(tag) : \A j \in SetterCalls(tag) : j <= i].value

C5_SettersAsStated ==
    \A tag \in SetterTags :
        /\ Cardinality(WithTag(axis.keys, tag)) <= 1
        /\ SetterCalls(tag) # {} =>
              /\ Cardinality(WithTag(axis.keys, tag)) = 1
              /\ \A i \in WithTag(axis.keys, tag) : axis.keys[i].value = LatestSetterText(tag)

\* C5: the Axis holds at most one Title, one XLabel and one YLabel entry;
\* once a setter was called there is exactly one entry of its tag, and it
\* holds the text of the latest call that passed that tag, be it the setter
\* or add_key with a key of that tag: the setter's text, unless add_key
\* passed a key of the same tag after it.
DirectAfterSetter(tag) ==
    \E i \in WithTag(axisCalls, tag) :
        axisVia[i] = "add_key" /\ \A j \in SetterCalls(tag) : j < i

C5_SettersLatest ==
    \A tag \in SetterTags :
        /\ Cardinality(WithTag(axis.keys, tag)) <= 1
        /\ SetterCalls(tag) # {} =>
              /\ Cardinality(WithTag(axis.keys, tag)) = 1
              /\ \A i \in WithTag(axis.keys, tag) :
                    /\ axis.keys[i] = LatestCall(axisCalls, tag)
                    /\ ~DirectAfterSetter(tag) => axis.keys[i].value = LatestSetterText(tag)

\* set_title was called twice with different texts, add_key in between.
C5_Witness ==
    /\ Len(axisCalls) = 3
    /\ axisVia = <<"set_title", "add_key", "set_title">>
    /\ axisCalls[1].value # axisCalls[3].value
    /\ Len(axis.keys) = 2
    /\ axis.keys[2] = axisCalls[3]

\* C6: rendering is pure. A to_string or standalone_string call leaves every
\* key list and every child sequence as it was, and a second rendering of the
\* same object with no mutation in between returns the same text.
RenderOps ==
    {"Coordinate2D::to_string", "Plot2D::to_string", "Axis::to_string",
     "Picture::to_string", "Picture::standalone_string"}

\* The text the operation op with argument arg returns for the given objects.
Rendering(op, arg, pl, ax, pic) ==
    CASE op = "Coordinate2D::to_string" -> Flatten(Coordinate2D_fmt(pl.coordinates[arg]))
      [] op = "Plot2D::to_string" -> Flatten(Plot2D_fmt(pl))
      [] op = "Axis::to_string" -> Flatten(Axis_fmt(ax))
      [] op = "Picture::to_string" -> Flatten(Picture_fmt(pic))
      [] op = "Picture::standalone_string" -> Flatten(Picture_standalone_string(pic))

C6_RenderStep ==
    last'.op \in RenderOps =>
        /\ UNCHANGED <<plot, axis, picture>>
        /\ ret' = Rendering(last'.op, last'.arg, plot, axis, picture)
        \* the objects the call leaves behind render to the same text again
        /\ ret' = Rendering(last'.op, last'.arg, plot', axis', picture')
        /\ (last.op \in RenderOps /\ last' = last) => ret' = ret

PlotBrackets(p) == PlotOwn(p, "[") + PlotOwn(p, "]")
AxisBrackets(a) == AxisOwn(a, "[") + AxisOwn(a, "]")
PictureBrackets(p) == PictureOwn(p, "[") + PictureOwn(p, "]")

C7_NoBracketsAsStated ==
    /\ plot.keys = <<>> => PlotBrackets(plot) = 0
    /\ axis.keys = <<>> => AxisBrackets(axis) = 0
    /\ picture.keys = <<>> => PictureBrackets(picture) = 0

\* C7: an Axis or a Picture with an empty option list renders without any '['
\* or ']' of its own. A Plot2D always writes its brackets: with an empty
\* option list they are the adjacent pair `[]`, right after `\addplot`.
C7_NoStrayBrackets ==
    /\ axis.keys = <<>> => AxisBrackets(axis) = 0
    /\ picture.keys = <<>> => PictureBrackets(picture) = 0
    /\ PlotOwn(plot, "[") = 1 /\ PlotOwn(plot, "]") = 1
    /\ plot.keys = <<>> =>
          SubSeq(Plot2D_fmt(plot), 1, 3) = <<"\t\\addplot", "[", "]">>

\* An axis without keys, holding a plot that has keys, was rendered.
C7_Witness ==
    /\ last.op = "Axis::to_string"
    /\ axis.keys = <<>>
    /\ axis.plots # <<>>
    /\ axis.plots[1].keys # <<>>
    /\ picture.keys = <<>>

\* C8 as stated: a Plot2D renders as `\addplot[`, then (only if it has keys) a
\* newline, a line `<key>,` per key and a closing indent, then
\* `] coordinates {` and a newline, a line per coordinate, then `};`; an
\* empty plot renders to `\addplot[] coordinates {`, newline, `};`.
RECURSIVE C8_KeyLines(_)
C8_KeyLines(keys) ==
    IF keys = <<>> THEN ""
    ELSE "\t\t" \o PlotKey_fmt(Head(keys)) \o ",\n" \o C8_KeyLines(Tail(keys))

RECURSIVE C8_CoordinateLines(_)
C8_CoordinateLines(cs) ==
    IF cs = <<>> THEN ""
    ELSE "\t\t" \o Flatten(Coordinate2D_fmt(Head(cs))) \o "\n" \o C8_CoordinateLines(Tail(cs))

C8_Block(p, indent) ==
    indent \o "\\addplot["
    \o (IF Len(p.keys) > 0 THEN "\n" \o C8_KeyLines(p.keys) \o "\t" ELSE "")
    \o "] coordinates {\n"
    \o C8_CoordinateLines(p.coordinates)
    \o indent \o "};"

C8_PlotTextAsStated ==
    /\ Flatten(Plot2D_fmt(plot)) = C8_Block(plot, "")
    /\ plot = Plot2D_new => Flatten(Plot2D_fmt(plot)) = "\\addplot[] coordinates {\n};"

\* C8: a Plot2D renders as a tab and `\addplot[`, then (only if it has keys) a
\* newline, a line of two tabs and `<key>,` per key in list order and a
\* closing tab, then `] coordinates {` and a newline, a line of two tabs and
\* the coordinate per coordinate in order, then a tab and `};` with no
\* trailing newline; an empty plot renders to tab, `\addplot[] coordinates {`,
\* newline, tab, `};`.
C8_PlotText ==
    /\ Flatten(Plot2D_fmt(plot)) = C8_Block(plot, "\t")
    /\ last.op = "Plot2D::to_string" => ret = C8_Block(plot, "\t")
    /\ plot = Plot2D_new => Flatten(Plot2D_fmt(plot)) = "\t\\addplot[] coordinates {\n\t};"

\* A plot with keys and coordinates was rendered.
C8_Witness ==
    /\ last.op = "Plot2D::to_string"
    /\ Len(plot.keys) + Len(plot.coordinates) = 3
    /\ plot.keys # <<>>
    /\ plot.coordinates # <<>>

\* C9: an Axis renders as `\begin{axis}`, then (only if it has keys) `[`, a
\* newline, a line tab+`<key>,` per key in list order and `]`; then a newline;
\* then each plot's rendered block followed by a newline, in sequence order;
\* then `\end{axis}` with no trailing newline. An Axis without plots and keys
\* renders to `\begin{axis}`, newline, `\end{axis}`; with a title as its only
\* key the bracketed block holds the line `title={...},`.
RECURSIVE C9_KeyLines(_)
C9_KeyLines(keys) ==
    IF keys = <<>> THEN ""
    ELSE "\t" \o AxisKey_fmt(Head(keys)) \o ",\n" \o C9_KeyLines(Tail(keys))

RECURSIVE C9_Plots(_)
C9_Plots(plots) ==
    IF plots = <<>> THEN ""
    ELSE Flatten(Plot2D_fmt(Head(plots))) \o "\n" \o C9_Plots(Tail(plots))

C9_Block(a) ==
    "\\begin{axis}"
    \o (IF Len(a.keys) > 0 THEN "[\n" \o C9_KeyLines(a.keys) \o "]" ELSE "")
    \o "\n"
    \o C9_Plots(a.plots)
    \o "\\end{axis}"

C9_AxisText ==
    /\ Flatten(Axis_fmt(axis)) = C9_Block(axis)
    /\ last.op = "Axis::to_string" => ret = C9_Block(axis)
    /\ axis = Axis_new => Flatten(Axis_fmt(axis)) = "\\begin{axis}\n\\end{axis}"
    /\ axis = Axis_push(Axis_new, Plot2D_new) =>
          Flatten(Axis_fmt(axis)) = "\\begin{axis}\n\t\\addplot[] coordinates {\n\t};\n\\end{axis}"
    /\ \A t \in LabelInputs :
          axis = Axis_set_title(Axis_new, t) =>
              Flatten(Axis_fmt(axis)) = "\\begin{axis}[\n\ttitle={" \o t \o "},\n]\n\\end{axis}"

\* An axis with a key and a plot that is not empty was rendered.
C9_Witness ==
    /\ last.op = "Axis::to_string"
    /\ axis.keys # <<>>
    /\ axis.plots # <<>>
    /\ axis.plots[1] # Plot2D_new

\* C10: a Picture renders as `\begin{tikzpicture}`, then (only if it has keys)
\* `[`, a newline, a line tab+`<key>,` per key in insertion order and `]`;
\* then a newline; then each axis's rendered block followed by a newline, in
\* sequence order; then `\end{tikzpicture}` with no trailing newline.
RECURSIVE C10_KeyLines(_)
C10_KeyLines(keys) ==
    IF keys = <<>> THEN ""
    ELSE "\t" \o PictureKey_fmt(Head(keys)) \o ",\n" \o C10_KeyLines(Tail(keys))

RECURSIVE C10_Axes(_)
C10_Axes(axes) ==
    IF axes = <<>> THEN ""
    ELSE Flatten(Axis_fmt(Head(axes))) \o "\n" \o C10_Axes(Tail(axes))

C10_Block(p) ==
    "\\begin{tikzpicture}"
    \o (IF Len(p.keys) > 0 THEN "[\n" \o C10_KeyLines(p.keys) \o "]" ELSE "")
    \o "\n"
    \o C10_Axes(p.axes)
    \o "\\end{tikzpicture}"

C10_PictureText ==
    /\ Flatten(Picture_fmt(picture)) = C10_Block(picture)
    /\ last.op = "Picture::to_string" => ret = C10_Block(picture)
    /\ picture = Picture_new =>
          Flatten(Picture_fmt(picture)) = "\\begin{tikzpicture}\n\\end{tikzpicture}"
    /\ picture = Picture_add_key(Picture_new, [tag |-> "Custom", value |-> "baseline"]) =>
          Flatten(Picture_fmt(picture)) = "\\begin{tikzpicture}[\n\tbaseline,\n]\n\\end{tikzpicture}"
    /\ picture = Picture_push(Picture_new, Axis_new) =>
          Flatten(Picture_fmt(picture))
              = "\\begin{tikzpicture}\n\\begin{axis}\n\\end{axis}\n\\end{tikzpicture}"

\* A picture with a key and an axis that is not empty was rendered.
C10_Witness ==
    /\ last.op = "Picture::to_string"
    /\ picture.keys # <<>>
    /\ picture.axes # <<>>
    /\ picture.axes[1] # Axis_new

-----------------------------------------------------------------------------
(* C11 *)

\* C11: standalone_string returns the three preamble lines
\* \documentclass{standalone}, \usepackage{pgfplots} and \begin{document},
\* each ended by a newline, then the rendered picture, then a newline and
\* \end{document} with nothing after it.
C11_StandaloneText ==
    /\ last.op = "Picture::standalone_string" =>
         ret = "\\documentclass{standalone}\n" \o "\\usepackage{pgfplots}\n"
               \o "\\begin{document}\n" \o Flatten(Picture_fmt(picture))
               \o "\n\\end{document}"
    /\ (last.op = "Picture::standalone_string" /\ picture = Picture_new) =>
         ret = "\\documentclass{standalone}\n\\usepackage{pgfplots}\n\\begin{document}\n\\begin{tikzpicture}\n\\end{tikzpicture}\n\\end{document}"

C11_Witness ==
    /\ last.op = "Picture::standalone_string"
    /\ picture.keys # <<>>
    /\ picture.axes # <<>>

-----------------------------------------------------------------------------
(* C12 *)

\* The held call op(arg) of the second state machine has returned.
Returned(op) == last.op = op /\ ops = 1

C12_Errors(c) ==
    "\t+- (" \o F64_fmt(IF c.error_x = <<>> THEN 0 ELSE c.error_x[1]) \o ","
    \o F64_fmt(IF c.error_y = <<>> THEN 0 ELSE c.error_y[1]) \o ")"

\* C12: a coordinate renders as (x,y); exactly when at least one of its two
\* errors is set this is followed by a tab, "+- (", the x error (0 if unset),
\* a comma, the y error (0 if unset) and ")".
C12_CoordinateText ==
    Returned("Coordinate2D::fmt") =>
        LET c == last.arg
            point == "(" \o F64_fmt(c.x) \o "," \o F64_fmt(c.y) \o ")"
        IN  /\ (c.error_x = <<>> /\ c.error_y = <<>>) => ret = point
            /\ (c.error_x # <<>> \/ c.error_y # <<>>) => ret = point \o C12_Errors(c)
            /\ c = Coordinate2D_from2(2, -2) => ret = "(1,-1)"
            /\ c = Coordinate2D_from4(2, -2, <<6>>, <<>>) => ret = "(1,-1)\t+- (3,0)"
            /\ c = Coordinate2D_from4(2, -2, <<>>, <<6>>) => ret = "(1,-1)\t+- (0,3)"
            /\ c = Coordinate2D_from4(2, -2, <<8>>, <<6>>) => ret = "(1,-1)\t+- (4,3)"

C12_Witness ==
    /\ Returned("Coordinate2D::fmt")
    /\ last.arg.error_x = <<>>
    /\ last.arg.error_y = <<6>>
    /\ ret = "(1,-1)\t+- (0,3)"

-----------------------------------------------------------------------------
(* C13 *)

C13_HasKey(p, tag) == \E i \in 1..Len(p.keys) : p.keys[i].tag = tag

\* The plot p with the x errors (the y errors) of its coordinates unset.
C13_WithoutErrorX(p) ==
    [p EXCEPT !.coordinates =
        [i \in 1..Len(p.coordinates) |-> [p.coordinates[i] EXCEPT !.error_x = <<>>]]]
C13_WithoutErrorY(p) ==
    [p EXCEPT !.coordinates =
        [i \in 1..Len(p.coordinates) |-> [p.coordinates[i] EXCEPT !.error_y = <<>>]]]

\* The text of a plot from " coordinates {" to its end.
C13_CoordinatePart(text) ==
    LET k == CHOOSE i \in 1..Len(text) :
                 /\ text[i] = " coordinates {"
                 /\ \A j \in 1..(i - 1) : text[j] # " coordinates {"
    IN  SubSeq(text, k, Len(text))

C13_WithErrors(p) ==
    {i \in 1..Len(p.coordinates) :
        p.coordinates[i].error_x # <<>> \/ p.coordinates[i].error_y # <<>>}

\* C13 as stated: unless the plot holds both XError and XErrorDirection
\* (YError and YErrorDirection), the x errors (y errors) of its coordinates
\* do not change its rendered text.
C13_ErrorsAsStated ==
    last.op = "Plot2D::to_string" =>
        /\ ~(C13_HasKey(plot, "XError") /\ C13_HasKey(plot, "XErrorDirection"))
              => ret = Flatten(Plot2D_fmt(C13_WithoutErrorX(plot)))
        /\ ~(C13_HasKey(plot, "YError") /\ C13_HasKey(plot, "YErrorDirection"))
              => ret = Flatten(Plot2D_fmt(C13_WithoutErrorY(plot)))

\* C13: the rendered text of a plot writes the errors of every coordinate
\* that has one set, whatever keys the plot holds: the text from
\* " coordinates {" on is that of the same plot without keys.
C13_ErrorsWritten ==
    last.op = "Plot2D::to_string" =>
        /\ ret = Flatten(Plot2D_fmt(plot))
        /\ C13_CoordinatePart(Plot2D_fmt(plot))
             = C13_CoordinatePart(Plot2D_fmt([plot EXCEPT !.keys = <<>>]))
        /\ Occurrences(Plot2D_fmt(plot), "\t+- (") = Cardinality(C13_WithErrors(plot))

C13_Witness ==
    /\ last.op = "Plot2D::to_string"
    /\ C13_WithErrors(plot) # {}
    /\ C13_HasKey(plot, "YError")
    /\ ~C13_HasKey(plot, "YErrorDirection")

-----------------------------------------------------------------------------
(* C14 *)

\* The decimal text of v halves: the integer alone when v is integral, the
\* integer part and .5 otherwise.
C14_Decimal(v) ==
    IF v % 2 = 0 THEN ToString(v \div 2)
    ELSE IF v < 0 THEN "-" \o ToString((0 - v) \div 2) \o ".5"
    ELSE ToString(v \div 2) \o ".5"

C14_Some(o) == IF o = <<>> THEN 0 ELSE o[1]

\* C14: every numeric field (coordinate x, y and errors, smoothing tension,
\* bar width and shift, marker scales) is written without a fractional part
\* when its value is integral (1.0 as 1, -1.0 as -1) and with its fractional
\* digits otherwise (0.5 as 0.5).
C14_Numbers ==
    /\ C14_Decimal(2) = "1" /\ C14_Decimal(-2) = "-1" /\ C14_Decimal(1) = "0.5"
    /\ Returned("Coordinate2D::fmt") =>
         LET c == last.arg
             point == "(" \o C14_Decimal(c.x) \o "," \o C14_Decimal(c.y) \o ")"
         IN  ret = IF c.error_x = <<>> /\ c.error_y = <<>> THEN point
                   ELSE point \o "\t+- (" \o C14_Decimal(C14_Some(c.error_x)) \o ","
                        \o C14_Decimal(C14_Some(c.error_y)) \o ")"
    /\ (Returned("Type2D::fmt") /\ last.arg.variant = "Smooth") =>
         ret = "smooth, tension=" \o C14_Decimal(last.arg.tension)
    /\ (Returned("Type2D::fmt") /\ last.arg.variant \in {"XBar", "YBar"}) =>
         ret = (IF last.arg.variant = "XBar" THEN "xbar" ELSE "ybar")
               \o ", bar width=" \o C14_Decimal(last.arg.bar_width)
               \o ", bar shift=" \o C14_Decimal(last.arg.bar_shift)
    /\ (Returned("MarkOption::fmt") /\ last.arg.tag = "Scale") =>
         ret = "scale=" \o C14_Decimal(last.arg.value)
    /\ (Returned("MarkOption::fmt") /\ last.arg.tag = "XScale") =>
         ret = "xscale=" \o C14_Decimal(last.arg.value)
    /\ (Returned("MarkOption::fmt") /\ last.arg.tag = "YScale") =>
         ret = "yscale=" \o C14_Decimal(last.arg.value)

C14_Witness ==
    /\ Returned("Type2D::fmt")
    /\ last.arg = [variant |-> "XBar", bar_width |-> 1, bar_shift |-> -2]
    /\ ret = "xbar, bar width=0.5, bar shift=-1"

-----------------------------------------------------------------------------
(* C15, C16 *)

\* One weighted color as from_mix writes it: <color>,<weight>.
C15_Entry(e) == Color_fmt(Color_into(e[1])) \o "," \o ToString(e[2])

RECURSIVE C15_Entries(_)
C15_Entries(ws) ==
    IF Len(ws) = 1 THEN C15_Entry(ws[1])
    ELSE C15_Entry(ws[1]) \o ";" \o C15_Entries(Tail(ws))

\* C15: from_mix of two or more (color, weight) pairs gives the text
\* rgb,255: followed by the <color>,<weight> entries joined by ";", with no
\* separator after the last entry.
C15_MixText ==
    /\ (Returned("Color::from_mix") /\ Len(last.arg) >= 2) =>
         ret = "rgb,255:" \o C15_Entries(last.arg)
    /\ (Returned("Color::from_mix")
        /\ last.arg = <<<<[predefined |-> "Red"], 200>>, <<[predefined |-> "DarkGray"], 55>>>>)
         => ret = "rgb,255:red,200;darkgray,55"

C15_Witness ==
    /\ Returned("Color::from_mix")
    /\ Len(last.arg) = 3
    /\ last.arg[1] # last.arg[2]
    /\ ret = "rgb,255:" \o C15_Entries(last.arg)

\* C16 as stated: from_mix of no entries gives the prefix rgb,255: alone, and
\* from_mix of one entry gives the prefix and that entry, with no separator.
C16_DegenerateAsStated ==
    /\ (Returned("Color::from_mix") /\ Len(last.arg) = 0) => ret = "rgb,255:"
    /\ (Returned("Color::from_mix") /\ Len(last.arg) = 1) =>
         ret = "rgb,255:" \o C15_Entry(last.arg[1])

\* What the code does for one entry, and for none: the pop that removes the
\* trailing separator removes the prefix, the only element of the vector.
C16_DegenerateInCode ==
    /\ (Returned("Color::from_mix") /\ Len(last.arg) = 0) => ret = ""
    /\ (Returned("Color::from_mix") /\ Len(last.arg) = 1) =>
         ret = "rgb,255:" \o C15_Entry(last.arg[1])

C16_Witness == Returned("Color::from_mix") /\ last.arg = <<>> /\ ret = ""

-----------------------------------------------------------------------------
(* C17 *)

C17_Mark(shape) ==
    IF shape.shape = "Text" THEN "mark=text, text mark=" \o shape.text
    ELSE "mark=" \o MarkShape_fmt(shape)

\* The options in the order of the list, each followed by ", " except the last.
RECURSIVE C17_Options(_)
C17_Options(os) ==
    IF os = <<>> THEN ""
    ELSE IF Len(os) = 1 THEN MarkOption_fmt(os[1])
    ELSE MarkOption_fmt(os[1]) \o ", " \o C17_Options(Tail(os))

\* C17: a marker renders as mark=<token> (for the text shape:
\* mark=text, text mark=<text>), then ", mark options={", the options in
\* insertion order joined by ", " with repeated tags kept, then "}"; an
\* empty option list gives mark options={}.
C17_MarkerText ==
    Returned("Marker::fmt") =>
        LET m == last.arg
        IN  /\ ret = C17_Mark(m.shape) \o ", mark options={" \o C17_Options(m.options) \o "}"
            /\ m.options = <<>> => ret = C17_Mark(m.shape) \o ", mark options={}"
            /\ m = Marker_new([shape |-> "O"], <<>>) => ret = "mark=o, mark options={}"
            /\ m = Marker_new([shape |-> "PentagonFilled"], <<>>)
                 => ret = "mark=pentagon*, mark options={}"
            /\ m = Marker_new([shape |-> "X"], <<[tag |-> "Scale", value |-> 3]>>)
                 => ret = "mark=x, mark options={scale=1.5}"
            /\ m = Marker_new([shape |-> "Text", text |-> "p"], <<>>)
                 => ret = "mark=text, text mark=p, mark options={}"
            /\ m = Marker_new([shape |-> "Plus"], <<[tag |-> "Scale", value |-> 4],
                                                   [tag |-> "Scale", value |-> 3]>>)
                 => ret = "mark=+, mark options={scale=2, scale=1.5}"

C17_Witness ==
    /\ Returned("Marker::fmt")
    /\ last.arg.shape = [shape |-> "Text", text |-> "Pq"]
    /\ Len(last.arg.options) = 2
    /\ last.arg.options[1].tag = last.arg.options[2].tag
    /\ last.arg.options[1] # last.arg.options[2]

-----------------------------------------------------------------------------
(* C18 *)

\* C18: Picture::from(axis) is the picture without keys whose axes are
\* exactly that axis; Picture::from(plot) is Picture::from of the axis
\* without keys whose plots are exactly that plot. The wrapped object, its
\* keys and its children, is held unchanged.
C18_FromWraps ==
    /\ Returned("Picture::from(Axis)") =>
         /\ ret.keys = <<>>
         /\ ret.axes = <<last.arg>>
         /\ ret.axes[1].keys = last.arg.keys
         /\ ret.axes[1].plots = last.arg.plots
    /\ Returned("Picture::from(Plot2D)") =>
         /\ ret = Picture_from_Axis([keys |-> <<>>, plots |-> <<last.arg>>])
         /\ ret.keys = <<>>
         /\ Len(ret.axes) = 1
         /\ ret.axes[1].keys = <<>>
         /\ ret.axes[1].plots = <<last.arg>>

C18_Witness ==
    /\ Returned("Picture::from(Axis)")
    /\ last.arg.keys # <<>>
    /\ Len(last.arg.plots) = 1
    /\ last.arg.plots[1].keys # <<>>
    /\ last.arg.plots[1].coordinates # <<>>
    /\ ret.axes = <<last.arg>>

-----------------------------------------------------------------------------
(* C19 *)

\* The tokens the unit tests expect, as sequences of characters.
C19_ScaleToken(v) ==
    CASE v = "Normal" -> <<"n", "o", "r", "m", "a", "l">>
      [] v = "Log" -> <<"l", "o", "g">>

C19_ErrorCharacterToken(v) ==
    CASE v = "Absolute" -> <<"e", "x", "p", "l", "i", "c", "i", "t">>
      [] v = "Relative" -> <<"e", "x", "p", "l", "i", "c", "i", "t", " ", "r", "e", "l", "a", "t", "i", "v", "e">>

C19_ErrorDirectionToken(v) ==
    CASE v = "None" -> <<"n", "o", "n", "e">>
      [] v = "Plus" -> <<"p", "l", "u", "s">>
      [] v = "Minus" -> <<"m", "i", "n", "u", "s">>
      [] v = "Both" -> <<"b", "o", "t", "h">>

C19_Type2DToken(v) ==
    CASE v = "SharpPlot" -> <<"s", "h", "a", "r", "p", " ", "p", "l", "o", "t">>
      [] v = "ConstLeft" -> <<"c", "o", "n", "s", "t", " ", "p", "l", "o", "t", " ", "m", "a", "r", "k", " ", "l", "e", "f", "t">>
      [] v = "ConstRight" -> <<"c", "o", "n", "s", "t", " ", "p", "l", "o", "t", " ", "m", "a", "r", "k", " ", "r", "i", "g", "h", "t">>
      [] v = "ConstMid" -> <<"c", "o", "n", "s", "t", " ", "p", "l", "o", "t", " ", "m", "a", "r", "k", " ", "m", "i", "d">>
      [] v = "JumpLeft" -> <<"j", "u", "m", "p", " ", "m", "a", "r", "k", " ", "l", "e", "f", "t">>
      [] v = "JumpRight" -> <<"j", "u", "m", "p", " ", "m", "a", "r", "k", " ", "r", "i", "g", "h", "t">>
      [] v = "JumpMid" -> <<"j", "u", "m", "p", " ", "m", "a", "r", "k", " ", "m", "i", "d">>
      [] v = "XComb" -> <<"x", "c", "o", "m", "b">>
      [] v = "YComb" -> <<"y", "c", "o", "m", "b">>
      [] v = "OnlyMarks" -> <<"o", "n", "l", "y", " ", "m", "a", "r", "k", "s">>

C19_MarkShapeToken(v) ==
    CASE v = "O" -> <<"o">>
      [] v = "OFilled" -> <<"*">>
      [] v = "X" -> <<"x">>
      [] v = "Plus" -> <<"+">>
      [] v = "Minus" -> <<"-">>
      [] v = "Pipe" -> <<"|">>
      [] v = "Star" -> <<"s", "t", "a", "r">>
      [] v = "Asterisk" -> <<"a", "s", "t", "e", "r", "i", "s", "k">>
      [] v = "OPlus" -> <<"o", "p", "l", "u", "s">>
      [] v = "OPlusFilled" -> <<"o", "p", "l", "u", "s", "*">>
      [] v = "OTimes" -> <<"o", "t", "i", "m", "e", "s">>
      [] v = "OTimesFilled" -> <<"o", "t", "i", "m", "e", "s", "*">>
      [] v = "Square" -> <<"s", "q", "u", "a", "r", "e">>
      [] v = "SquareFilled" -> <<"s", "q", "u", "a", "r", "e", "*">>
      [] v = "Triangle" -> <<"t", "r", "i", "a", "n", "g", "l", "e">>
      [] v = "TriangleFilled" -> <<"t", "r", "i", "a", "n", "g", "l", "e", "*">>
      [] v = "Diamond" -> <<"d", "i", "a", "m", "o", "n", "d">>
      [] v = "DiamondFilled" -> <<"d", "i", "a", "m", "o", "n", "d", "*">>
      [] v = "Pentagon" -> <<"p", "e", "n", "t", "a", "g", "o", "n">>
      [] v = "PentagonFilled" -> <<"p", "e", "n", "t", "a", "g", "o", "n", "*">>

C19_Uppercase ==
    { "A", "B", "C", "D", "E", "F", "G", "H", "I", "J", "K", "L", "M", "N",
      "O", "P", "Q", "R", "S", "T", "U", "V", "W", "X", "Y", "Z" }

C19_NoUppercase(token) == \A i \in 1..Len(token) : token[i] \notin C19_Uppercase

\* The text ret is the token, and the token has no uppercase letter.
C19_Is(text, token) == text = Flatten(token) /\ C19_NoUppercase(token)

\* The text of a key wrapping the token: the prefix, then the token.
C19_Wraps(text, prefix, token) ==
    text = prefix \o Flatten(token) /\ C19_NoUppercase(token)

\* What C19 says of every enumeration but MarkShape.
C19_PlainEnumerations ==
    /\ Returned("Scale::fmt") => C19_Is(ret, C19_ScaleToken(last.arg))
    /\ Returned("ErrorCharacter::fmt") => C19_Is(ret, C19_ErrorCharacterToken(last.arg))
    /\ Returned("ErrorDirection::fmt") => C19_Is(ret, C19_ErrorDirectionToken(last.arg))
    /\ (Returned("Type2D::fmt") /\ last.arg.variant \in Type2DPlainVariants)
         => C19_Is(ret, C19_Type2DToken(last.arg.variant))
    /\ (Returned("AxisKey::fmt") /\ last.arg.tag = "XMode")
         => C19_Wraps(ret, "xmode=", C19_ScaleToken(last.arg.value))
    /\ (Returned("AxisKey::fmt") /\ last.arg.tag = "YMode")
         => C19_Wraps(ret, "ymode=", C19_ScaleToken(last.arg.value))
    /\ (Returned("PlotKey::fmt") /\ last.arg.tag = "XError")
         => C19_Wraps(ret, "error bars/x ", C19_ErrorCharacterToken(last.arg.value))
    /\ (Returned("PlotKey::fmt") /\ last.arg.tag = "YError")
         => C19_Wraps(ret, "error bars/y ", C19_ErrorCharacterToken(last.arg.value))
    /\ (Returned("PlotKey::fmt") /\ last.arg.tag = "XErrorDirection")
         => C19_Wraps(ret, "error bars/x dir=", C19_ErrorDirectionToken(last.arg.value))
    /\ (Returned("PlotKey::fmt") /\ last.arg.tag = "YErrorDirection")
         => C19_Wraps(ret, "error bars/y dir=", C19_ErrorDirectionToken(last.arg.value))
    /\ (Returned("PlotKey::fmt") /\ last.arg.tag = "Type2D"
        /\ last.arg.value.variant \in Type2DPlainVariants)
         => C19_Wraps(ret, "", C19_Type2DToken(last.arg.value.variant))

\* C19 as stated: every variant of MarkShape too has one fixed token without
\* uppercase letters, and the key that carries it is mark= and that token.
C19_TokensAsStated ==
    /\ C19_PlainEnumerations
    /\ Returned("MarkShape::fmt") => C19_Is(ret, C19_MarkShapeToken(last.arg.shape))
    /\ (Returned("PlotKey::fmt") /\ last.arg.tag = "Marker") =>
         \E n \in MarkShapeVariants : C19_Wraps(ret, "mark=", C19_MarkShapeToken(n))

\* C19: every variant of Scale, ErrorCharacter and ErrorDirection, every
\* Type2D variant without fields and every MarkShape variant but Text
\* renders to one fixed token without uppercase letters; the key of a Scale,
\* ErrorCharacter, ErrorDirection or Type2D is its fixed prefix and the
\* token. The key of a marker is mark=<token> followed by its mark options,
\* and for the Text shape mark=text, text mark= and the caller's text.
C19_Tokens ==
    /\ C19_PlainEnumerations
    /\ Returned("MarkShape::fmt") => C19_Is(ret, C19_MarkShapeToken(last.arg.shape))
    /\ (Returned("PlotKey::fmt") /\ last.arg.tag = "Marker") =>
         LET m == last.arg.value
             options == ", mark options={" \o C17_Options(m.options) \o "}"
         IN  IF m.shape.shape = "Text"
             THEN ret = "mark=text, text mark=" \o m.shape.text \o options
             ELSE /\ ret = "mark=" \o Flatten(C19_MarkShapeToken(m.shape.shape)) \o options
                  /\ C19_NoUppercase(C19_MarkShapeToken(m.shape.shape))

C19_Witness ==
    /\ Returned("PlotKey::fmt")
    /\ last.arg.tag = "Marker"
    /\ last.arg.value.shape = [shape |-> "OFilled"]
    /\ last.arg.value.options = <<>>
    /\ ret = "mark=*, mark options={}"

-----------------------------------------------------------------------------
(* C20 *)

\* C20: XBar and YBar always render as xbar (ybar), then ", bar width=" and
\* the width, then ", bar shift=" and the shift, in that order whichever
\* field was given first at construction and also when a field is zero;
\* Smooth renders as "smooth, tension=" and the tension.
C20_BarsAndSmooth ==
    /\ (Returned("Type2D::fmt") /\ last.arg.variant = "XBar") =>
         /\ ret = "xbar, bar width=" \o F64_fmt(last.arg.bar_width)
                  \o ", bar shift=" \o F64_fmt(last.arg.bar_shift)
         /\ ret = Type2D_fmt([variant |-> "XBar", bar_shift |-> last.arg.bar_shift,
                              bar_width |-> last.arg.bar_width])
    /\ (Returned("Type2D::fmt") /\ last.arg.variant = "YBar") =>
         /\ ret = "ybar, bar width=" \o F64_fmt(last.arg.bar_width)
                  \o ", bar shift=" \o F64_fmt(last.arg.bar_shift)
         /\ ret = Type2D_fmt([variant |-> "YBar", bar_shift |-> last.arg.bar_shift,
                              bar_width |-> last.arg.bar_width])
    /\ (Returned("Type2D::fmt") /\ last.arg.variant = "Smooth") =>
         ret = "smooth, tension=" \o F64_fmt(last.arg.tension)
    /\ (Returned("Type2D::fmt")
        /\ last.arg = [variant |-> "XBar", bar_width |-> 1, bar_shift |-> 2])
         => ret = "xbar, bar width=0.5, bar shift=1"
    /\ (Returned("Type2D::fmt")
        /\ last.arg = [variant |-> "YBar", bar_shift |-> 2, bar_width |-> 1])
         => ret = "ybar, bar width=0.5, bar shift=1"
    /\ (Returned("Type2D::fmt")
        /\ last.arg = [variant |-> "XBar", bar_width |-> 0, bar_shift |-> 0])
         => ret = "xbar, bar width=0, bar shift=0"

C20_Witness ==
    /\ Returned("Type2D::fmt")
    /\ last.arg.variant = "YBar"
    /\ last.arg.bar_width = 3
    /\ last.arg.bar_shift = 0
    /\ ret = "ybar, bar width=1.5, bar shift=0"

-----------------------------------------------------------------------------
(* C21 *)

C21_PlotOps == {"Plot2D::add_key", "Plot2D::coordinates.push"}
C21_AxisOps ==
    {"Axis::add_key", "Axis::set_title", "Axis::set_x_label", "Axis::set_y_label",
     "Axis::plots.push"}
C21_PictureOps == {"Picture::add_key", "Picture::axes.push"}

\* A call on the plot leaves the axis and the picture, with the copies they
\* store and their text, as they were; a call on the axis leaves the plot
\* and the picture as they were; a call on the picture leaves the plot and
\* the axis as they were.
C21_Step ==
    /\ (ops' = ops + 1 /\ last'.op \in C21_PlotOps) =>
          /\ axis'.plots = axis.plots
          /\ picture'.axes = picture.axes
          /\ Flatten(Axis_fmt(axis')) = Flatten(Axis_fmt(axis))
          /\ Flatten(Picture_fmt(picture')) = Flatten(Picture_fmt(picture))
    /\ (ops' = ops + 1 /\ last'.op \in C21_AxisOps) =>
          /\ plot' = plot
          /\ picture'.axes = picture.axes
          /\ Flatten(Plot2D_fmt(plot')) = Flatten(Plot2D_fmt(plot))
          /\ Flatten(Picture_fmt(picture')) = Flatten(Picture_fmt(picture))
    /\ (ops' = ops + 1 /\ last'.op \in C21_PictureOps) =>
          /\ plot' = plot
          /\ axis' = axis
          /\ Flatten(Axis_fmt(axis')) = Flatten(Axis_fmt(axis))

\* C21: instances share no state. Once a clone of the plot is stored in the
\* axis (of the axis in the picture), a later add_key or push on the original
\* leaves the stored copy and the container's text unchanged, and a call on
\* the container leaves the original unchanged.
C21_NoSharedState == [][C21_Step]_vars

\* The plot was changed after its clone was stored: the stored copy differs
\* from the original.
C21_Witness ==
    /\ last.op = "Plot2D::add_key"
    /\ Len(axis.plots) = 1
    /\ axis.plots[1] # plot
    /\ axis.plots[1].coordinates = plot.coordinates
    /\ plot.coordinates # <<>>

-----------------------------------------------------------------------------
(* C24 *)

\* The call calls[i] is not Custom and a later call has its tag.
C24_Superseded(calls, i) ==
    /\ ~IsCustom(calls[i])
    /\ \E j \in (i + 1)..Len(calls) : calls[j].tag = calls[i].tag

\* The calls from the i-th on, the superseded ones deleted.
RECURSIVE C24_From(_, _)
C24_From(calls, i) ==
    IF i > Len(calls) THEN <<>>
    ELSE (IF C24_Superseded(calls, i) THEN <<>> ELSE <<calls[i]>>)
         \o C24_From(calls, i + 1)

\* C24: the key list of a plot or an axis is the sequence of its add_key
\* calls from which every non-Custom call followed by a later call of the
\* same tag is deleted: Custom keys stay in call order and a non-Custom tag
\* stands at the position of its last call.
C24_KeysAreDedupedCalls ==
    /\ plot.keys = C24_From(plotCalls, 1)
    /\ axis.keys = C24_From(axisCalls, 1)

\* A replaced key moved behind a Custom key that was added after it.
C24_Witness ==
    /\ Len(plotCalls) = 3
    /\ plotCalls[1].tag = "XError"
    /\ IsCustom(plotCalls[2])
    /\ plotCalls[3].tag = "XError"
    /\ plotCalls[3] # plotCalls[1]
    /\ plot.keys = <<plotCalls[2], plotCalls[3]>>

-----------------------------------------------------------------------------
(* C25 *)

C25_Present(keys, k) == \E i \in 1..Len(keys) : keys[i].tag = k.tag

\* Adding k a second time changes nothing, and adding it once grows the
\* list by one exactly when its tag was absent.
C25_Twice(before, once, twice, k) ==
    /\ twice.keys = once.keys
    /\ Len(once.keys) = Len(before.keys) + (IF C25_Present(before.keys, k) THEN 0 ELSE 1)

\* In every state, for every non-Custom key that may be passed.
C25_Anywhere ==
    /\ \A k \in PlotKeyInputs : ~IsCustom(k) =>
          C25_Twice(plot, Plot2D_add_key(plot, k),
                    Plot2D_add_key(Plot2D_add_key(plot, k), k), k)
    /\ \A k \in AxisKeyInputs : ~IsCustom(k) =>
          C25_Twice(axis, Axis_add_key(axis, k),
                    Axis_add_key(Axis_add_key(axis, k), k), k)

\* A call that repeats the previous call's non-Custom key leaves the list
\* as it is; a call with a non-Custom key grows it by one exactly when the
\* tag was absent.
C25_Step ==
    /\ (Len(plotCalls') = Len(plotCalls) + 1 /\ ~IsCustom(Last(plotCalls'))) =>
          /\ Len(plot'.keys) = Len(plot.keys)
                + (IF C25_Present(plot.keys, Last(plotCalls')) THEN 0 ELSE 1)
          /\ (plotCalls # <<>> /\ Last(plotCalls) = Last(plotCalls'))
                => plot'.keys = plot.keys
    /\ (Len(axisCalls') = Len(axisCalls) + 1 /\ ~IsCustom(Last(axisCalls'))) =>
          /\ Len(axis'.keys) = Len(axis.keys)
                + (IF C25_Present(axis.keys, Last(axisCalls')) THEN 0 ELSE 1)
          /\ (axisCalls # <<>> /\ Last(axisCalls) = Last(axisCalls'))
                => axis'.keys = axis.keys

\* C25: re-adding a non-Custom key is idempotent on Plot2D and Axis:
\* add_key(k) twice leaves the key list of a single add_key(k), and the
\* length grows by one only when k's tag was absent.
C25_Idempotent == []C25_Anywhere /\ [][C25_Step]_vars

\* The same non-Custom key was added twice running to an axis that holds
\* another key, and is held once.
C25_Witness ==
    /\ Len(axisCalls) = 3
    /\ axisCalls[2] = axisCalls[3]
    /\ ~IsCustom(axisCalls[3])
    /\ axisCalls[1].tag # axisCalls[3].tag
    /\ axis.keys = <<axisCalls[1], axisCalls[3]>>

-----------------------------------------------------------------------------
(* C27 *)

\* The entries of keys that add_key(k) must keep: all of them when k is
\* Custom, those of another tag otherwise, in their order.
C27_Others(keys, k) == IF IsCustom(k) THEN keys ELSE OtherTags(keys, k.tag)

\* new is old's other entries, payload and order kept, then k.
C27_Frame(old, new, k) ==
    /\ new # <<>>
    /\ SubSeq(new, 1, Len(new) - 1) = C27_Others(old, k)
    /\ new[Len(new)] = k

C27_Step ==
    /\ Len(plotCalls') = Len(plotCalls) + 1 =>
          /\ C27_Frame(plot.keys, plot'.keys, Last(plotCalls'))
          /\ plot'.coordinates = plot.coordinates
    /\ Len(axisCalls') = Len(axisCalls) + 1 =>
          /\ C27_Frame(axis.keys, axis'.keys, Last(axisCalls'))
          /\ axis'.plots = axis.plots

-----------------------------------------------------------------------------
(* C29 *)

\* A one-to-one map from the tags of AxisKey to tags of PlotKey, Custom to
\* Custom, and its inverse on the image.
C29_ToPlotTag(tag) ==
    CASE tag = "Custom" -> "Custom" [] tag = "XMode" -> "XError"
      [] tag = "YMode" -> "YError" [] tag = "Title" -> "Type2D"
      [] tag = "XLabel" -> "XErrorDirection" [] tag = "YLabel" -> "YErrorDirection"

C29_ToAxisTag(tag) ==
    CASE tag = "Custom" -> "Custom" [] tag = "XError" -> "XMode"
      [] tag = "YError" -> "YMode" [] tag = "Type2D" -> "Title"
      [] tag = "XErrorDirection" -> "XLabel" [] tag = "YErrorDirection" -> "YLabel"

C29_AsPlotKeys(keys) ==
    [i \in 1..Len(keys) |-> [keys[i] EXCEPT !.tag = C29_ToPlotTag(@)]]
C29_AsAxisKeys(keys) ==
    [i \in 1..Len(keys) |-> [keys[i] EXCEPT !.tag = C29_ToAxisTag(@)]]

\* The calls made one after the other on a new plot, axis and picture.
RECURSIVE C29_OnPlot(_)
C29_OnPlot(calls) ==
    IF calls = <<>> THEN Plot2D_new
    ELSE Plot2D_add_key(C29_OnPlot(SubSeq(calls, 1, Len(calls) - 1)), Last(calls))

RECURSIVE C29_OnAxis(_)
C29_OnAxis(calls) ==
    IF calls = <<>> THEN Axis_new
    ELSE Axis_add_key(C29_OnAxis(SubSeq(calls, 1, Len(calls) - 1)), Last(calls))

RECURSIVE C29_OnPicture(_)
C29_OnPicture(calls) ==
    IF calls = <<>> THEN Picture_new
    ELSE Picture_add_key(C29_OnPicture(SubSeq(calls, 1, Len(calls) - 1)), Last(calls))

C29_Tags(keys) == [i \in 1..Len(keys) |-> keys[i].tag]

\* C29: Plot2D::add_key and Axis::add_key are the same replace-by-tag
\* algorithm: the calls made on the axis, made on a plot with the tags
\* mapped one to one, give a key list of the same length with the same tag
\* at every position, and so do the calls made on the plot, made on an axis;
\* on the picture's calls, which are all Custom, Picture::add_key agrees
\* with both.
C29_SameAlgorithm ==
    /\ axis.keys = C29_OnAxis(axisCalls).keys
    /\ plot.keys = C29_OnPlot(plotCalls).keys
    /\ C29_Tags(C29_OnPlot(C29_AsPlotKeys(axisCalls)).keys)
         = C29_Tags(C29_AsPlotKeys(axis.keys))
    /\ C29_Tags(C29_OnAxis(C29_AsAxisKeys(plotCalls)).keys)
         = C29_Tags(C29_AsAxisKeys(plot.keys))
    /\ picture.keys = C29_OnPicture(pictureCalls).keys
    /\ C29_OnPlot(pictureCalls).keys = picture.keys
    /\ C29_OnAxis(pictureCalls).keys = picture.keys

\* The axis replaced a key that stood before a Custom key.
C29_Witness ==
    /\ Len(axisCalls) = 3
    /\ ~IsCustom(axisCalls[1])
    /\ IsCustom(axisCalls[2])
    /\ axisCalls[3].tag = axisCalls[1].tag
    /\ C29_Tags(axis.keys) = <<"Custom", axisCalls[1].tag>>

-----------------------------------------------------------------------------
(* Properties of to_pdf and show_pdf *)

\* What happened in the call of to_pdf so far.
C22_Written == tex_file.created /\ tex_file.complete
C22_Ran == compiler.started /\ compiler.status # <<>>

\* C22: with the PdfLatex engine to_pdf returns Ok(working_dir joined with
\* jobname.pdf) if and only if the temporary file was created and written,
\* the process was started and it exited with success; it returns
\* BadExitCode with the status exactly when the process ran and did not
\* exit with success; it returns IoError when creating the file, writing it
\* or starting the process failed. A call has exactly one of the three
\* outcomes.
C22_Outcomes ==
    pdf_result # <<>> =>
        LET r == pdf_result[1] IN
        /\ Len(pdf_result) = 1
        /\ r.kind \in {"Ok", "BadExitCode", "IoError"}
        /\ r.kind = "Ok" <=>
              C22_Written /\ C22_Ran /\ success(compiler.status[1])
        /\ r.kind = "Ok" => r.value = working_dir \o "/" \o jobname \o ".pdf"
        /\ r.kind = "BadExitCode" <=> C22_Ran /\ ~success(compiler.status[1])
        /\ r.kind = "BadExitCode" => r.status = compiler.status[1]
        /\ (~tex_file.created \/ ~tex_file.complete \/ ~compiler.started)
              => r.kind = "IoError"
        /\ r.kind = "IoError" => ~C22_Ran

\* to_pdf called by the caller returned the path in the directory passed.
C22_Witness ==
    /\ entry = "to_pdf"
    /\ pc = "done"
    /\ pdf_result = <<Ok("/work/jobname.pdf")>>
    /\ compiler.status = <<0>>

C23_Compiled == pdf_result # <<>> /\ pdf_result[1].kind = "Ok"

\* C23: show_pdf calls the viewer only after the compilation returned Ok,
\* once, and with exactly the path it returned. If the compilation fails
\* the viewer is never called and the result is BadCompilation wrapping the
\* CompileError; if the viewer fails the result is OpenerError; the result
\* is Ok(()) only if both succeeded.
C23_ViewerAfterCompile ==
    /\ entry # "show_pdf" => show_result = <<>> /\ opened = <<>>
    /\ opened # <<>> =>
          /\ C23_Compiled
          /\ Len(opened) = 1
          /\ opened[1].path = pdf_result[1].value
    /\ (entry = "show_pdf" /\ pc = "done") =>
          /\ Len(show_result) = 1
          /\ ~C23_Compiled =>
                /\ opened = <<>>
                /\ show_result[1] = [kind |-> "BadCompilation",
                                     source |-> pdf_result[1]]
          /\ C23_Compiled => opened # <<>>
          /\ (opened # <<>> /\ ~opened[1].ok) => show_result[1].kind = "OpenerError"
          /\ show_result[1].kind = "Ok" <=>
                C23_Compiled /\ opened # <<>> /\ opened[1].ok
    /\ pc # "done" => show_result = <<>>

\* The compilation succeeded and the viewer failed.
C23_Witness ==
    /\ entry = "show_pdf"
    /\ pc = "done"
    /\ C23_Compiled
    /\ opened = <<[path |-> "/tmp/pgfplots_aB3dE6gH.pdf", ok |-> FALSE]>>
    /\ show_result = <<OpenerError>>

\* The compiler exited with a failure and show_pdf returned it wrapped.
C23_WitnessBadCompilation ==
    /\ entry = "show_pdf"
    /\ show_result = <<BadCompilation(BadExitCode(1))>>

\* C26: the job name chosen by show_pdf does not overwrite an existing
\* file: none of the three files of the name exists when the compiler
\* writes them, also when other processes create files in the temporary
\* directory between the test and the compilation.
C26_NoOverwriteAsStated == entry = "show_pdf" => overwritten = {}

\* What the code gives: at the test the three files were absent, and the
\* compiler later wrote over a file another process had created since.
C26_OverwrittenInCode ==
    /\ entry = "show_pdf"
    /\ pc = "returned"
    /\ overwritten # {}
    /\ overwritten \subseteq Outputs(TempDir, jobname)

\* C28: in to_pdf the standalone text is fully written to the temporary
\* file before the compiler is started, and it is exactly
\* standalone_string() of the picture; if creating or writing the file
\* fails the compiler is never started and no path is returned.
C28_WrittenBeforeCompile ==
    /\ compiler.started =>
          /\ tex_file.created /\ tex_file.complete
          /\ tex_file.text = Flatten(Picture_standalone_string(picture))
          /\ compiler.input = Flatten(Picture_standalone_string(picture))
    /\ pc \in {"status", "wait"} => tex_file.complete
    /\ (pdf_result # <<>> /\ ~(tex_file.created /\ tex_file.complete)) =>
          /\ ~compiler.started
          /\ compiler.status = <<>>
          /\ pdf_result[1].kind # "Ok"
          /\ files \subseteq TempFiles
          /\ overwritten = {}

\* The compiler was started on the text of a picture with an axis.
C28_Witness ==
    /\ compiler.started
    /\ picture.axes # <<>>
    /\ compiler.input = Flatten(Picture_standalone_string(picture))

\* The write failed part way and to_pdf returned without a compiler run.
C28_WitnessWriteFailed ==
    /\ tex_file.created
    /\ ~tex_file.complete
    /\ tex_file.text # ""
    /\ pdf_result = <<IoError>>
    /\ ~compiler.started

\* No file of the suffix's job name is in the temporary directory.
C30_Free(suffix) == Outputs(TempDir, "pgfplots_" \o suffix) \cap files = {}

C30_InLoop == pc \in {"random_jobname", "exists"}

\* The step that leaves the loop: the name returned was drawn as pgfplots_
\* and 8 characters, and its three files were absent at the test.
C30_Step ==
    (pc = "exists" /\ pc' = "create") =>
        /\ working_dir' = TempDir
        /\ jobname' = jobname
        /\ Len(jobname) = 17
        /\ \E suffix \in Suffixes :
              /\ Len(suffix) = 8
              /\ jobname = "pgfplots_" \o suffix
              /\ C30_Free(suffix)
        /\ Path_join(TempDir, jobname \o ".pdf") \notin files
        /\ Path_join(TempDir, jobname \o ".log") \notin files
        /\ Path_join(TempDir, jobname \o ".aux") \notin files

\* C30: random_jobname terminates under a fair random choice: as long as a
\* suffix is left whose .pdf, .log and .aux files are all absent, the loop
\* eventually returns; the name returned is pgfplots_ followed by 8
\* characters for which the three files were absent at the test.
C30_Terminates ==
    /\ C30_InLoop ~> (~C30_InLoop \/ ~\E suffix \in Suffixes : C30_Free(suffix))
    /\ [][C30_Step]_vars

\* The loop returned the one name left free.
C30_Witness ==
    /\ entry = "show_pdf"
    /\ pc = "create"
    /\ jobname = "pgfplots_00000000"
    /\ ~C30_Free("aB3dE6gH")
    /\ C30_Free("00000000")

====
